---- MODULE Spec2Model ----
(***************************************************************************)
(* kzrjson: JSON text library for C.                                       *)
(* Model of the exception-based revision, src/kzrjson.c lines 1-1105:      *)
(* lexer (get_token), recursive-descent parser (parse_value), value tree,  *)
(* constructive API (kzrjson_make_X) and compact serializer                *)
(* (kzrjson_to_string).                                                    *)
(*                                                                         *)
(* A text is a sequence of one-character strings.  A char pointer into the *)
(* parsed text is a 1-based index into the memory that holds the text, its *)
(* terminating NUL and the bytes that happen to follow it.  A kzrjson_t    *)
(* pointer is <<>> (NULL) or <<node>>.                                     *)
(***************************************************************************)
EXTENDS Integers, Sequences, FiniteSets

VARIABLES
    json_text,    \* argument of the last kzrjson_parse call
    root,         \* kzrjson_t the client holds: <<>> or <<node>>
    g_exception,  \* g_exception.name
    out,          \* kzrjson_text_t returned by the last kzrjson_to_string
    vals,         \* nodes made with kzrjson_make_* and not yet attached
    source,       \* first tree of a round trip and its serialization
    lexer,        \* the lexer and current_token, as left by the last call
    pc,           \* position of the client program
    heap,         \* the nodes allocated, by address: children are addresses
    added,        \* per address, the children added with success, in order
    released,     \* the blocks passed to free(), in order
    ret           \* the last accessor call and the pointer it returned

\* the variables of the pointer-level view of the constructive API
hvars == <<heap, added, released, ret>>

vars == <<json_text, root, g_exception, out, vals, source, lexer, pc, hvars>>

(***************************************************************************)
(* Characters                                                              *)
(***************************************************************************)
NUL == "\\0"
begin_array == "["
begin_object == "{"
end_array == "]"
end_object == "}"
name_separator == ":"
value_separator == ","
white_spaces == {" ", "\t", "\n", "\r"}
literal_false == <<"f", "a", "l", "s", "e">>
literal_null == <<"n", "u", "l", "l">>
literal_true == <<"t", "r", "u", "e">>
decimal_point == "."
digit0_9 == {"0", "1", "2", "3", "4", "5", "6", "7", "8", "9"}
e == {"e", "E"}
minus == "-"
plus == "+"
escape == "\\"
quotation_mark == "\""
escape_targets == {"\"", "\\", "/", "b", "f", "n", "r", "t", "u"}

\* *p for a char pointer p into memory m; memory beyond m reads as NUL
At(m, p) == IF p >= 1 /\ p <= Len(m) THEN m[p] ELSE NUL

\* strchr(chars, c) != NULL: the terminator of chars matches c = NUL
strchr(chars, c) == c \in chars \/ c = NUL

(***************************************************************************)
(* Lexer.  A lexer state L is a record                                     *)
(*   pos    lexer.pos                                                      *)
(*   type, begin, length   current_token                                   *)
(*   ret    value returned by the last get_token call                      *)
(*   exc    g_exception.name                                               *)
(*   over   TRUE once next() has moved lexer.pos across a NUL              *)
(*   raised the exceptions thrown since the call began                     *)
(*   allocs the heap blocks allocated since the call began and not freed   *)
(*   freed  the heap blocks freed since the call began                     *)
(*   kept   the regions that the text pointers of the nodes point into     *)
(*   tokens the calls of get_token since the call began                    *)
(*   stalls those of them that returned a token other than the end of the  *)
(*          text, without an exception, and left lexer.pos where it was    *)
(*   iters  the iterations begun by the loops of parse_object, parse_array *)
(*          and parse_number since the call began                          *)
(***************************************************************************)
set_lexer(exc) ==
    [pos |-> 1, type |-> "error", begin |-> 0, length |-> 0,
     ret |-> "error", exc |-> exc, over |-> FALSE, raised |-> {}, allocs |-> 0,
     freed |-> 0, kept |-> {}, tokens |-> 0, stalls |-> 0, iters |-> 0]

next(m, L) ==
    [L EXCEPT !.pos = L.pos + 1, !.over = L.over \/ At(m, L.pos) = NUL]

end_of_text(m, L) == At(m, L.pos) = NUL

throw_exception(L, name) ==
    [L EXCEPT !.exc = name, !.raised = @ \cup {name}]

\* exception_set_success()
exception_set_success(L) == [L EXCEPT !.exc = "success"]

\* n calls of calloc that returned a block
calloc(L, n) == [L EXCEPT !.allocs = @ + n]

\* n calls of free on a block
free(L, n) == [L EXCEPT !.allocs = @ - n, !.freed = @ + n]

\* a node keeps a text pointer into the region: "heap" is a buffer that
\* calloc returned, "static" a literal, "json_text" the text being parsed
keep(L, region) == [L EXCEPT !.kept = @ \cup {region}]

\* the node keeps current_token.begin itself
text_of_token(L) == keep(L, "json_text")

\* the node keeps the buffer that copy_string returned
text_of_copy(L) == keep(L, "heap")

\* the node keeps literal_true, literal_false or literal_null
text_of_literal(L) == keep(L, "static")

kzrjson_catch_exception(L) == L.exc # "success"

set_token(L, type, begin, length) ==
    [L EXCEPT !.type = type, !.begin = begin, !.length = length, !.ret = type]

set_token_char(L, type) == set_token(L, type, L.begin, 1)

set_token_eot(L) == set_token(L, "end_of_text", 0, 0)

contained(m, L, chars) == strchr(chars, At(m, L.pos))

\* strstr(lexer.pos, literal) == lexer.pos
starts_with(m, L, literal) ==
    \A i \in 1..Len(literal) : At(m, L.pos + i - 1) = literal[i]

\* consume_literal that leaves the cursor at the literal
consume_literal_stay(m, L, literal) == L

consume_literal(m, L, literal) ==
    [L EXCEPT !.pos = L.pos + Len(literal)]

\* the for loop of set_token_string; len is the local variable length
RECURSIVE set_token_string_loop(_, _, _, _)
set_token_string_loop(m, L, begin, len) ==
    IF At(m, L.pos) = quotation_mark
    THEN set_token(next(m, L), "string", begin, len)
    ELSE IF end_of_text(m, L)
    THEN [throw_exception(L, "tokenize") EXCEPT !.ret = "error"]
    ELSE IF At(m, L.pos) = escape
    THEN LET L1 == next(m, L) IN
         IF end_of_text(m, L1)
         THEN [throw_exception(L1, "tokenize") EXCEPT !.ret = "error"]
         ELSE IF ~strchr(escape_targets, At(m, L1.pos))
         THEN [throw_exception(L1, "tokenize") EXCEPT !.ret = "error"]
         ELSE set_token_string_loop(m, next(m, L1), begin, len + 2)
    ELSE set_token_string_loop(m, next(m, L), begin, len + 1)

\* set_token_string with the length counted from 1
set_token_string_from1(m, L) == set_token_string_loop(m, L, L.pos, 1)

set_token_string(m, L) == set_token_string_loop(m, L, L.pos, 0)

\* while (consume_if_contained(white_spaces)) if (end_of_text()) return eot
RECURSIVE skip_white_spaces(_, _)
skip_white_spaces(m, L) ==
    IF contained(m, L, white_spaces)
    THEN LET L1 == next(m, L) IN
         IF end_of_text(m, L1) THEN set_token_eot(L1)
         ELSE skip_white_spaces(m, L1)
    ELSE [L EXCEPT !.ret = "none"]

get_token_char(m, L) ==
    LET c == At(m, L.pos) IN
    IF c = begin_array THEN set_token_char(next(m, L), "begin_array")
    ELSE IF c = begin_object THEN set_token_char(next(m, L), "begin_object")
    ELSE IF c = end_array THEN set_token_char(next(m, L), "end_array")
    ELSE IF c = end_object THEN set_token_char(next(m, L), "end_object")
    ELSE IF c = name_separator THEN set_token_char(next(m, L), "name_separator")
    ELSE IF c = value_separator THEN set_token_char(next(m, L), "value_separator")
    ELSE IF c = decimal_point THEN set_token_char(next(m, L), "decimal_point")
    ELSE IF contained(m, L, digit0_9) THEN next(m, set_token_char(L, "digit0_9"))
    ELSE IF contained(m, L, e) THEN next(m, set_token_char(next(m, L), "e"))
    ELSE IF c = minus THEN set_token_char(next(m, L), "minus")
    ELSE IF c = plus THEN set_token_char(next(m, L), "plus")
    ELSE IF c = escape THEN set_token_char(next(m, L), "escape")
    ELSE IF c = quotation_mark THEN set_token_string(m, next(m, L))
    ELSE IF starts_with(m, L, literal_false)
    THEN set_token(consume_literal(m, L, literal_false), "literal_false", -1, 5)
    ELSE IF starts_with(m, L, literal_true)
    THEN set_token(consume_literal(m, L, literal_true), "literal_true", -2, 4)
    ELSE IF starts_with(m, L, literal_null)
    THEN set_token(consume_literal(m, L, literal_null), "null", -3, 4)
    ELSE [throw_exception(L, "tokenize") EXCEPT !.ret = "error"]

\* the body of get_token
get_token_body(m, L) ==
    IF end_of_text(m, L) THEN set_token_eot(L)
    ELSE LET L1 == skip_white_spaces(m, L) IN
         IF L1.ret = "end_of_text" THEN L1 ELSE get_token_char(m, L1)

\* a call of get_token that began in L and returned in L1
get_token_called(L, L1) ==
    [L1 EXCEPT !.tokens = @ + 1,
               !.stalls = IF \/ L1.pos > L.pos
                             \/ L1.ret = "end_of_text"
                             \/ L1.ret = "error" /\ L1.exc = "tokenize"
                          THEN @ ELSE @ + 1]

get_token(m, L) == get_token_called(L, get_token_body(m, L))

\* the body of a loop is entered
iteration(L) == [L EXCEPT !.iters = @ + 1]

(***************************************************************************)
(* Standard conversions strtoll / strtoull / strtod on a C string s.       *)
(* Each returns [conv, value]: conv is FALSE when no character was         *)
(* converted (end == string).  A double is kept as the exact decimal       *)
(* neg * m * 10^e10 with m not divisible by 10, so two doubles are      *)
(* equal exactly when their records are.  Texts are short enough for the   *)
(* 64-bit range never to saturate.                                         *)
(***************************************************************************)
\* the vertical tab, which no token contains, is left out
isspace == {" ", "\t", "\n", "\r", "\f"}

DigitValue(c) ==
    CASE c = "0" -> 0 [] c = "1" -> 1 [] c = "2" -> 2 [] c = "3" -> 3
      [] c = "4" -> 4 [] c = "5" -> 5 [] c = "6" -> 6 [] c = "7" -> 7
      [] c = "8" -> 8 [] c = "9" -> 9

SeqAt(s, i) == IF i >= 1 /\ i <= Len(s) THEN s[i] ELSE NUL

RECURSIVE SkipSpace(_, _)
SkipSpace(s, i) == IF SeqAt(s, i) \in isspace THEN SkipSpace(s, i + 1) ELSE i

\* index just after the digits that start at s[i]
RECURSIVE DigitsEnd(_, _)
DigitsEnd(s, i) == IF SeqAt(s, i) \in digit0_9 THEN DigitsEnd(s, i + 1) ELSE i

\* decimal value of the digits s[i..j-1]
RECURSIVE DigitsValue(_, _, _)
DigitsValue(s, i, j) ==
    IF i >= j THEN 0 ELSE DigitsValue(s, i, j - 1) * 10 + DigitValue(s[j - 1])

\* [conv, value] once the digits s[j..k-1] are known
strtoll_digits(s, neg, j, k) ==
    IF k = j THEN [conv |-> FALSE, value |-> 0]
    ELSE [conv |-> TRUE,
          value |-> IF neg THEN 0 - DigitsValue(s, j, k) ELSE DigitsValue(s, j, k)]

\* the optional sign at s[i]
strtoll_sign(s, i) ==
    IF SeqAt(s, i) \in {minus, plus}
    THEN strtoll_digits(s, SeqAt(s, i) = minus, i + 1, DigitsEnd(s, i + 1))
    ELSE strtoll_digits(s, FALSE, i, DigitsEnd(s, i))

\* strtoll(s, &end, 10) and, for texts without a sign, strtoull(s, &end, 10)
strtoll(s) == strtoll_sign(s, SkipSpace(s, 1))

Zero == [neg |-> FALSE, m |-> 0, e10 |-> 0]

\* the digits without their trailing zeros
RECURSIVE Significant(_)
Significant(digits) ==
    IF Len(digits) > 0 /\ digits[Len(digits)] = "0"
    THEN Significant(SubSeq(digits, 1, Len(digits) - 1))
    ELSE digits

\* strtod(s, &end) scans [ws] [sign] digits [. digits] [e [sign] digits].
\* The scan R records: neg the sign, s[j..k-1] the integer digits,
\* s[f..g-1] the fraction digits, exp the value of the exponent.
strtod_sign(s, i) ==
    [neg |-> SeqAt(s, i) = minus,
     j |-> IF SeqAt(s, i) \in {minus, plus} THEN i + 1 ELSE i,
     k |-> 0, f |-> 0, g |-> 0, exp |-> 0]

strtod_int(s, R) == [R EXCEPT !.k = DigitsEnd(s, R.j)]

strtod_frac(s, R) ==
    IF SeqAt(s, R.k) = decimal_point
    THEN [R EXCEPT !.f = R.k + 1, !.g = DigitsEnd(s, R.k + 1)]
    ELSE [R EXCEPT !.f = R.k, !.g = R.k]

\* the exponent digits s[y..z-1], negated when xneg
strtod_exp_digits(s, R, xneg, y, z) ==
    IF z > y
    THEN [R EXCEPT !.exp = IF xneg THEN 0 - DigitsValue(s, y, z)
                           ELSE DigitsValue(s, y, z)]
    ELSE R

strtod_exp(s, R) ==
    IF SeqAt(s, R.g) \notin e THEN R
    ELSE IF SeqAt(s, R.g + 1) \in {minus, plus}
    THEN strtod_exp_digits(s, R, SeqAt(s, R.g + 1) = minus, R.g + 2,
                           DigitsEnd(s, R.g + 2))
    ELSE strtod_exp_digits(s, R, FALSE, R.g + 1, DigitsEnd(s, R.g + 1))

\* [conv, value] from the scan, all its digits and the significant ones
strtod_value(R, digits, sig) ==
    IF Len(digits) = 0 THEN [conv |-> FALSE, value |-> Zero]
    ELSE IF Len(sig) = 0 THEN [conv |-> TRUE, value |-> Zero]
    ELSE [conv |-> TRUE,
          value |-> [neg |-> R.neg,
                     m |-> DigitsValue(sig, 1, Len(sig) + 1),
                     e10 |-> R.exp - (R.g - R.f) + (Len(digits) - Len(sig))]]

strtod_digits(s, R) == SubSeq(s, R.j, R.k - 1) \o SubSeq(s, R.f, R.g - 1)

strtod_scan(s, R) ==
    strtod_value(R, strtod_digits(s, R), Significant(strtod_digits(s, R)))

strtod(s) ==
    strtod_scan(s, strtod_exp(s, strtod_frac(s, strtod_int(s,
                       strtod_sign(s, SkipSpace(s, 1))))))

(***************************************************************************)
(* Value tree.  A node is a struct kzrjson_t; calloc leaves every field    *)
(* that make_json does not set at zero.  elements holds the children in    *)
(* order; elements_size is its length unless an allocation of the child   *)
(* array failed; value is the pointer of a member.  Allocation succeeds    *)
(* everywhere but in the specification of allocation failures.             *)
(***************************************************************************)
NULL == <<>>

make_json(type, string) ==
    [type |-> type, string |-> string, elements |-> <<>>, elements_size |-> 0,
     key |-> <<>>,
     value |-> NULL, number_type |-> "int", number_int |-> 0,
     number_uint |-> 0, number_double |-> Zero, boolean |-> FALSE]

\* the text with every escape replaced by its target character
RECURSIVE Decoded(_)
Decoded(string) ==
    IF Len(string) = 0 THEN <<>>
    ELSE IF string[1] = escape /\ Len(string) >= 2
    THEN <<string[2]>> \o Decoded(SubSeq(string, 3, Len(string)))
    ELSE <<string[1]>> \o Decoded(Tail(string))

\* make_string that stores the decoded text
make_string_decoded(string) == make_json("string", Decoded(string))

make_string(string) == make_json("string", string)

make_boolean(boolean) ==
    [make_json("bool", IF boolean THEN literal_true ELSE literal_false)
        EXCEPT !.boolean = boolean]

make_null == make_json("null", literal_null)

make_object == make_json("object", <<>>)

make_array == make_json("array", <<>>)

make_member(key) == [make_json("member", <<>>) EXCEPT !.key = key]

\* the end of make_number: r is what strtoll, strtoull or strtod returned
make_number_set(data, type, r) ==
    IF ~r.conv THEN [node |-> NULL, exc |-> "not_number"]
    ELSE IF type = "int"
    THEN [node |-> <<[data EXCEPT !.number_int = r.value]>>, exc |-> "success"]
    ELSE IF type = "uint"
    THEN [node |-> <<[data EXCEPT !.number_uint = r.value]>>, exc |-> "success"]
    ELSE [node |-> <<[data EXCEPT !.number_double = r.value]>>, exc |-> "success"]

\* [node, exc]: node is NULL and exc is not_number when nothing converts
make_number(number, type) ==
    make_number_set([make_json("number", number) EXCEPT !.number_type = type],
                    type,
                    IF type \in {"int", "uint"} THEN strtoll(number)
                    ELSE strtod(number))

\* add_element that stores the new element in front of the others
add_element_front(array_or_object, element) ==
    IF array_or_object = NULL \/ element = NULL THEN array_or_object
    ELSE <<[array_or_object[1] EXCEPT !.elements_size = @ + 1,
                                      !.elements = <<element[1]>> \o @]>>

\* add_element: a NULL container or element is ignored
add_element(array_or_object, element) ==
    IF array_or_object = NULL \/ element = NULL THEN array_or_object
    ELSE <<[array_or_object[1] EXCEPT !.elements_size = @ + 1,
                                      !.elements = Append(@, element[1])]>>

\* add_element when calloc or realloc returns NULL: elements_size is
\* incremented already and elements is NULL, then the exception is thrown
add_element_failed(array_or_object, element) ==
    IF array_or_object = NULL \/ element = NULL THEN array_or_object
    ELSE <<[array_or_object[1] EXCEPT !.elements_size = @ + 1,
                                      !.elements = <<>>]>>

add_value(member, value) ==
    IF member = NULL \/ value = NULL THEN member
    ELSE <<[member[1] EXCEPT !.value = value]>>

\* strncpy_s(buffer, length + 1, from, length): stops at a NUL in the source
RECURSIVE copy_string(_, _, _)
copy_string(m, from, length) ==
    IF length <= 0 \/ At(m, from) = NUL THEN <<>>
    ELSE <<At(m, from)>> \o copy_string(m, from + 1, length - 1)

(***************************************************************************)
(* Parser.  Every parse function takes the memory m and the lexer state L  *)
(* and returns [L, node]: the lexer state it leaves and the pointer it     *)
(* returns.                                                                *)
(***************************************************************************)
Ret(L, node) == [L |-> L, node |-> node]

current_is(L, type) == L.type = type

current_must(L, type) ==
    IF ~current_is(L, type) THEN throw_exception(L, "parse") ELSE L

\* for (; token == kzrjson_token_digit0_9; token = get_token())
\*     if (kzrjson_catch_exception()) return NULL;
\* P is [L, type, done]; the local token is P.L.ret; done means returned NULL
RECURSIVE number_digits(_, _)
number_digits(m, P) ==
    IF P.done \/ P.L.ret # "digit0_9" THEN P
    ELSE IF kzrjson_catch_exception(P.L) THEN [P EXCEPT !.done = TRUE]
    ELSE number_digits(m, [P EXCEPT !.L = get_token(m, iteration(P.L))])

\* after the get_token that follows a minus sign
number_minus_next(L1) ==
    [L |-> L1, type |-> "int", done |-> kzrjson_catch_exception(L1)]

number_minus(m, L) ==
    IF L.ret = "minus" THEN number_minus_next(get_token(m, L))
    ELSE [L |-> L, type |-> "uint", done |-> FALSE]

\* number_frac that keeps the classification
number_frac_keep(m, P) ==
    IF P.done \/ P.L.ret # "decimal_point" THEN P
    ELSE number_digits(m, [P EXCEPT !.L = get_token(m, P.L)])

number_frac(m, P) ==
    IF P.done \/ P.L.ret # "decimal_point" THEN P
    ELSE number_digits(m, [P EXCEPT !.type = "double", !.L = get_token(m, P.L)])

\* after the get_token that follows the sign of an exponent
number_exp_digits(m, L2) ==
    IF kzrjson_catch_exception(L2) THEN [L |-> L2, type |-> "exp", done |-> TRUE]
    ELSE number_digits(m, [L |-> L2, type |-> "exp", done |-> FALSE])

\* after the get_token that follows the e of an exponent
number_exp_sign(m, L1) ==
    IF L1.ret \in {"minus", "plus"} THEN number_exp_digits(m, get_token(m, L1))
    ELSE number_digits(m, [L |-> L1, type |-> "exp", done |-> FALSE])

number_exp(m, P) ==
    IF P.done \/ P.L.ret # "e" THEN P ELSE number_exp_sign(m, get_token(m, P.L))

\* return make_number(number, type): r is its [node, exc]
parse_number_ret(L, r) ==
    IF r.node = NULL THEN Ret(throw_exception(L, r.exc), NULL) ELSE Ret(L, r.node)

\* the end of parse_number: length = lexer.pos - begin - lookahead
parse_number_copy(m, begin, P, lookahead) ==
    IF P.done THEN Ret(P.L, NULL)
    ELSE parse_number_ret(text_of_copy(calloc(P.L, 2)),
             make_number(copy_string(m, begin, P.L.pos - begin - lookahead), P.type))

\* parse_number with the length one too long
parse_number_long(m, L) ==
    parse_number_copy(m, L.pos - 1,
        number_exp(m, number_frac(m, number_digits(m,
            number_minus(m, [L EXCEPT !.ret = L.type])))), 0)

parse_number(m, L) ==
    parse_number_copy(m, L.pos - 1,
        number_exp(m, number_frac(m, number_digits(m,
            number_minus(m, [L EXCEPT !.ret = L.type])))), 1)

\* if (kzrjson_catch_exception()) return NULL; return data;
return_data(L, data) ==
    IF kzrjson_catch_exception(L) THEN Ret(L, NULL) ELSE Ret(L, data)

\* a scalar of parse_value: the node is made, then the next token is read
parse_scalar(m, L, data) ==
    IF kzrjson_catch_exception(L) THEN Ret(L, NULL)
    ELSE return_data(get_token(m, L), <<data>>)

RECURSIVE parse_value(_, _)
RECURSIVE parse_object_loop(_, _, _)
RECURSIVE parse_array_loop(_, _, _)

\* the calloc of add_element: the first child allocates the child array,
\* later children reallocate it
add_element_calloc(L, array_or_object, element) ==
    IF array_or_object = NULL \/ element = NULL THEN L
    ELSE IF Len(array_or_object[1].elements) = 0 THEN calloc(L, 1)
    ELSE L

\* add_value(member, parse_value()); return member;
parse_member_value(member, r) == Ret(r.L, add_value(member, r.node))

\* after the get_token that follows the name separator
parse_member_token(m, L4, member) ==
    IF kzrjson_catch_exception(L4) THEN Ret(L4, NULL)
    ELSE parse_member_value(member, parse_value(m, L4))

\* after current_must(kzrjson_token_name_separator)
parse_member_separator(m, L3, member) ==
    IF kzrjson_catch_exception(L3) THEN Ret(L3, NULL)
    ELSE parse_member_token(m, get_token(m, L3), member)

\* after the get_token that follows the key
parse_member_name(m, L2, member) ==
    IF kzrjson_catch_exception(L2) THEN Ret(L2, NULL)
    ELSE parse_member_separator(m, current_must(L2, "name_separator"), member)

\* after current_must(kzrjson_token_string)
parse_member_key(m, L1) ==
    IF kzrjson_catch_exception(L1) THEN Ret(L1, NULL)
    ELSE parse_member_name(m, get_token(m, text_of_copy(calloc(L1, 2))),
             <<make_member(copy_string(m, L1.begin, L1.length))>>)

parse_member(m, L) == parse_member_key(m, current_must(L, "string"))

\* add_element(object, parse_member()), then the while loop
parse_object_add(m, object, r) ==
    parse_object_loop(m, add_element_calloc(r.L, object, r.node),
                      add_element(object, r.node))

\* after a get_token that a member must follow
parse_object_member(m, L2, object) ==
    IF kzrjson_catch_exception(L2) THEN Ret(L2, NULL)
    ELSE parse_object_add(m, object, parse_member(m, L2))

\* after a current_must that a get_token follows
parse_object_token(m, L1, object) ==
    IF kzrjson_catch_exception(L1) THEN Ret(L1, NULL)
    ELSE parse_object_member(m, get_token(m, L1), object)

parse_object_loop(m, L, object) ==
    IF current_is(L, "end_object") THEN return_data(get_token(m, L), object)
    ELSE parse_object_token(m, current_must(iteration(L), "value_separator"),
                            object)

parse_object(m, L) ==
    IF kzrjson_catch_exception(L) THEN Ret(L, NULL)
    ELSE parse_object_token(m, current_must(L, "begin_object"), <<make_object>>)

\* add_element(array, parse_value()), then the while loop
parse_array_add(m, array, r) ==
    parse_array_loop(m, add_element_calloc(r.L, array, r.node),
                     add_element(array, r.node))

\* after a get_token that a value must follow
parse_array_value(m, L2, array) ==
    IF kzrjson_catch_exception(L2) THEN Ret(L2, NULL)
    ELSE parse_array_add(m, array, parse_value(m, L2))

\* after a current_must that a get_token follows
parse_array_token(m, L1, array) ==
    IF kzrjson_catch_exception(L1) THEN Ret(L1, NULL)
    ELSE parse_array_value(m, get_token(m, L1), array)

parse_array_loop(m, L, array) ==
    IF current_is(L, "end_array") THEN return_data(get_token(m, L), array)
    ELSE parse_array_token(m, current_must(iteration(L), "value_separator"),
                           array)

parse_array(m, L) ==
    IF kzrjson_catch_exception(L) THEN Ret(L, NULL)
    ELSE parse_array_token(m, current_must(L, "begin_array"), <<make_array>>)

parse_value(m, L) ==
    IF current_is(L, "literal_false")
    THEN parse_scalar(m, text_of_literal(calloc(L, 1)), make_boolean(FALSE))
    ELSE IF current_is(L, "literal_true")
    THEN parse_scalar(m, text_of_literal(calloc(L, 1)), make_boolean(TRUE))
    ELSE IF current_is(L, "null")
    THEN parse_scalar(m, text_of_literal(calloc(L, 1)), make_null)
    ELSE IF current_is(L, "string")
    THEN parse_scalar(m, text_of_copy(calloc(L, 2)),
                      make_string(copy_string(m, L.begin, L.length)))
    ELSE IF current_is(L, "begin_object") THEN parse_object(m, calloc(L, 1))
    ELSE IF current_is(L, "begin_array") THEN parse_array(m, calloc(L, 1))
    ELSE parse_number(m, L)

\* after the first get_token
parse_json_value(m, L1) ==
    IF kzrjson_catch_exception(L1) THEN Ret(L1, NULL) ELSE parse_value(m, L1)

parse_json_text(m, L) == parse_json_value(m, get_token(m, L))

RECURSIVE kzrjson_inner_free(_)
RECURSIVE elements_free(_, _)

\* the loop of kzrjson_inner_free over the children, from child i on
elements_free(inner, i) ==
    IF i > Len(inner.elements) THEN 0
    ELSE kzrjson_inner_free(<<inner.elements[i]>>) + elements_free(inner, i + 1)

\* the number of blocks kzrjson_inner_free(ptr) frees: the node, the child
\* array when there is one, the key, the text of a string or number
kzrjson_inner_free(ptr) ==
    IF ptr = NULL THEN 0
    ELSE IF ptr[1].type \in {"array", "object"}
    THEN elements_free(ptr[1], 1)
         + (IF Len(ptr[1].elements) > 0 THEN 1 ELSE 0) + 1
    ELSE IF ptr[1].type = "member" THEN 1 + kzrjson_inner_free(ptr[1].value) + 1
    ELSE IF ptr[1].type \in {"string", "number"} THEN 1 + 1
    ELSE 1

\* kzrjson_free(any) as kzrjson_parse calls it
kzrjson_free(L, any) == free(exception_set_success(L), kzrjson_inner_free(any))

\* return NULL; with the exception state that L holds
parse_null(L) == [node |-> NULL, exc |-> L.exc, over |-> L.over, L |-> L]

\* kzrjson_parse that does not throw the exception again after kzrjson_free
parse_rethrow_none(exception, L) == parse_null(L)

\* throw_exception(exception); return NULL; after kzrjson_free(any)
parse_rethrow(exception, L) == parse_null(throw_exception(L, exception))

\* the end of kzrjson_parse: r is what parse_json_text returned
parse_return(r) ==
    IF kzrjson_catch_exception(r.L)
    THEN parse_rethrow(r.L.exc, kzrjson_free(r.L, r.node))
    ELSE [node |-> r.node, exc |-> "success", over |-> r.L.over,
          L |-> [r.L EXCEPT !.pos = 0]]

\* kzrjson_parse on memory m: [node, exc, over, L].  On an exception the
\* partial result is freed, the exception is thrown again and NULL returned;
\* on success lexer.pos is set to NULL.
parse(m) == parse_return(parse_json_text(m, set_lexer("success")))

(***************************************************************************)
(* Serializer.  g_converter is the record C:                               *)
(*   buf     the calloc'ed buffer of length + 1 characters                 *)
(*   pos     g_converter.pos as a 1-based index into buf                   *)
(*   length  g_converter.length                                            *)
(*   violation  strcpy_s met a runtime-constraint violation                *)
(*   overflow   a write went beyond the buffer                             *)
(*   crash      a NULL pointer was dereferenced                            *)
(***************************************************************************)
RECURSIVE kzrjson_inner_length(_)
RECURSIVE elements_length(_, _)

\* the loop over the children of an object or array, from child i on
elements_length(inner, i) ==
    IF i > Len(inner.elements) THEN 0
    ELSE kzrjson_inner_length(<<inner.elements[i]>>)
         + (IF i # Len(inner.elements) THEN 1 ELSE 0)
         + elements_length(inner, i + 1)

\* the number of characters kzrjson_inner_length adds to g_converter.length
kzrjson_inner_length(ptr) ==
    IF ptr = NULL THEN 0
    ELSE LET inner == ptr[1] IN
         IF inner.type \in {"object", "array"} THEN 1 + elements_length(inner, 1) + 1
         ELSE IF inner.type = "member"
         THEN 1 + Len(inner.key) + 1 + 1 + kzrjson_inner_length(inner.value)
         ELSE IF inner.type = "string" THEN 1 + Len(inner.string) + 1
         ELSE Len(inner.string)

converter_add_char(C, c) ==
    IF C.pos > Len(C.buf) THEN [C EXCEPT !.overflow = TRUE, !.pos = @ + 1]
    ELSE [C EXCEPT !.buf[C.pos] = c, !.pos = @ + 1]

\* strcpy_s(pos, remain, string) copies only when remain > strlen(string);
\* otherwise it sets pos[0] to NUL and reports the violation
converter_add_string(C, string) ==
    LET remain == C.length - (C.pos - 1)
        n == Len(string)
    IN  IF remain > n
        THEN [C EXCEPT !.buf = [i \in 1..Len(C.buf) |->
                                   IF i >= C.pos /\ i < C.pos + n THEN string[i - C.pos + 1]
                                   ELSE IF i = C.pos + n THEN NUL
                                   ELSE C.buf[i]],
                       !.pos = @ + n]
        ELSE [C EXCEPT !.buf = [i \in 1..Len(C.buf) |->
                                   IF i = C.pos /\ remain > 0 THEN NUL ELSE C.buf[i]],
                       !.violation = TRUE,
                       !.overflow = @ \/ remain < 0,
                       !.pos = @ + n]

RECURSIVE kzrjson_inner_to_string(_, _)
RECURSIVE elements_to_string(_, _, _)

\* a value separator written after every child, the last one too
elements_separator_always(C, inner, i) == converter_add_char(C, value_separator)

\* the value separator written after every child but the last
elements_separator(C, inner, i) ==
    IF i # Len(inner.elements) THEN converter_add_char(C, value_separator) ELSE C

elements_to_string(C, inner, i) ==
    IF i > Len(inner.elements) THEN C
    ELSE elements_to_string(
             elements_separator(
                 kzrjson_inner_to_string(C, <<inner.elements[i]>>), inner, i),
             inner, i + 1)

kzrjson_inner_to_string(C, ptr) ==
    IF ptr = NULL THEN [C EXCEPT !.crash = TRUE]
    ELSE LET inner == ptr[1] IN
         IF inner.type = "object"
         THEN converter_add_char(
                  elements_to_string(converter_add_char(C, begin_object), inner, 1),
                  end_object)
         ELSE IF inner.type = "array"
         THEN converter_add_char(
                  elements_to_string(converter_add_char(C, begin_array), inner, 1),
                  end_array)
         ELSE IF inner.type = "member"
         THEN kzrjson_inner_to_string(
                  converter_add_char(
                      converter_add_char(
                          converter_add_string(
                              converter_add_char(C, quotation_mark), inner.key),
                          quotation_mark),
                      name_separator),
                  inner.value)
         ELSE IF inner.type = "string"
         THEN converter_add_char(
                  converter_add_string(
                      converter_add_char(C, quotation_mark), inner.string),
                  quotation_mark)
         ELSE converter_add_string(C, inner.string)

\* the C string held in buf: the characters before the first NUL
RECURSIVE c_str(_, _)
c_str(buf, i) ==
    IF i > Len(buf) \/ buf[i] = NUL THEN <<>> ELSE <<buf[i]>> \o c_str(buf, i + 1)

\* the kzrjson_text_t returned and what went wrong on the way
to_string_return(length, C) ==
    [text |-> c_str(C.buf, 1), length |-> length, pos |-> C.pos,
     violation |-> C.violation, overflow |-> C.overflow, crash |-> C.crash]

\* the second pass, into a calloc'ed buffer of length + 1 characters
to_string_convert(ptr, length) ==
    to_string_return(length,
        kzrjson_inner_to_string(
            [buf |-> [i \in 1..(length + 1) |-> NUL], pos |-> 1,
             length |-> length, violation |-> FALSE,
             overflow |-> FALSE, crash |-> FALSE], ptr))

\* kzrjson_to_string(data)
to_string(ptr) == to_string_convert(ptr, kzrjson_inner_length(ptr))

(***************************************************************************)
(* Constructive API: what each kzrjson_make_X call returns, as             *)
(* [node, exc].  snprintf(buffer, size, ...) keeps the first size - 1      *)
(* characters of the formatted text.                                       *)
(***************************************************************************)
DigitChar(d) ==
    CASE d = 0 -> "0" [] d = 1 -> "1" [] d = 2 -> "2" [] d = 3 -> "3"
      [] d = 4 -> "4" [] d = 5 -> "5" [] d = 6 -> "6" [] d = 7 -> "7"
      [] d = 8 -> "8" [] d = 9 -> "9"

RECURSIVE NatDigits(_)
NatDigits(n) ==
    IF n < 10 THEN <<DigitChar(n)>>
    ELSE NatDigits(n \div 10) \o <<DigitChar(n % 10)>>

RECURSIVE Pow10(_)
Pow10(k) == IF k <= 0 THEN 1 ELSE 10 * Pow10(k - 1)

RECURSIVE PadZeros(_, _)
PadZeros(digits, width) ==
    IF Len(digits) >= width THEN digits ELSE PadZeros(<<"0">> \o digits, width)

snprintf(size, text) ==
    IF Len(text) > size - 1 THEN SubSeq(text, 1, size - 1) ELSE text

\* "%lld"
FormatLld(n) == IF n < 0 THEN <<minus>> \o NatDigits(0 - n) ELSE NatDigits(n)

\* "%llu"
FormatLlu(n) == NatDigits(n)

\* "%lf" of neg * m * 10^e10, for e10 >= -6: six digits after the point
FormatLf(d) ==
    LET int == IF d.e10 >= 0 THEN d.m * Pow10(d.e10) ELSE d.m \div Pow10(0 - d.e10)
        frac == IF d.e10 >= 0 THEN 0
                ELSE (d.m % Pow10(0 - d.e10)) * Pow10(6 + d.e10)
    IN  (IF d.neg THEN <<minus>> ELSE <<>>) \o NatDigits(int)
            \o <<decimal_point>> \o PadZeros(NatDigits(frac), 6)

double_max_digit == 16
uint64_max_digit == 20
int64_t_max_digit == 19

kzrjson_make_number_double(number) ==
    make_number(snprintf(double_max_digit + 1, FormatLf(number)), "double")

kzrjson_make_number_uint(number) ==
    make_number(snprintf(uint64_max_digit + 1, FormatLlu(number)), "uint")

kzrjson_make_number_int(number) ==
    make_number(snprintf(int64_t_max_digit + 1, FormatLld(number)), "int")

kzrjson_make_number_exp(exp, length) ==
    IF ~strtod(exp).conv THEN [node |-> NULL, exc |-> "not_number"]
    ELSE make_number(copy_string(exp, 1, length), "exp")

kzrjson_make_string(string, length) ==
    [node |-> <<make_string(copy_string(string, 1, length))>>, exc |-> "success"]

kzrjson_make_member(key, key_length, value) ==
    [node |-> add_value(<<make_member(copy_string(key, 1, key_length))>>, value),
     exc |-> "success"]

\* [ok, node, exc]: the return value, the container afterwards, the exception
kzrjson_object_add_member(object, member) ==
    IF object[1].type # "object" \/ member[1].type # "member"
    THEN [ok |-> FALSE, node |-> object, exc |-> "illegal_type"]
    ELSE [ok |-> TRUE, node |-> add_element(object, member), exc |-> "success"]

kzrjson_array_add_element(array, element) ==
    IF array[1].type # "array"
    THEN [ok |-> FALSE, node |-> array, exc |-> "illegal_type"]
    ELSE [ok |-> TRUE, node |-> add_element(array, element), exc |-> "success"]

(***************************************************************************)
(* Inputs                                                                  *)
(***************************************************************************)
MaxLen == 3      \* every text of up to MaxLen atoms is parsed
MaxNum == 4      \* every number-like text of up to MaxNum characters
MaxStr == 3      \* every string body of up to MaxStr characters
MaxVals == 2     \* values the client holds unattached at one time
MaxNodes == 3    \* nodes the client builds in all

SeqsUpTo(S, n) == UNION {[1..k -> S] : k \in 0..n}

RECURSIVE Flatten(_)
Flatten(w) == IF Len(w) = 0 THEN <<>> ELSE w[1] \o Flatten(Tail(w))

Atoms ==
    {<<c>> : c \in {"[", "]", "{", "}", ":", ",", "\"", "\\", "0", "1", "-",
                    ".", "e", " ", "a"}}
    \cup {literal_true, literal_null}

ShortTexts == {Flatten(w) : w \in SeqsUpTo(Atoms, MaxLen)}

NumberChars == {"0", "1", "-", "+", ".", "e", "E"}

NumberTexts == SeqsUpTo(NumberChars, MaxNum) \ {<<>>}

StringChars == {"a", "\"", "\\", "n", "q"}

StringBodies == SeqsUpTo(StringChars, MaxStr)

Quoted(body) == <<quotation_mark>> \o body \o <<quotation_mark>>

\* <<prefix, suffix>> put around a value
Frames ==
    {<<<<>>, <<>>>>,
     <<<<>>, <<"\n">>>>,
     <<<<"[">>, <<"]">>>>,
     <<<<"[">>, <<",", "1", "]">>>>,
     <<<<"[">>, <<" ", "]">>>>,
     <<<<"{", "\"", "a", "\"", ":">>, <<"}">>>>}

Framed(f, v) == f[1] \o v \o f[2]

KeyFrame == <<<<"{">>, <<":", "1", "}">>>>

\* the text of test_kzrjson_to_string
test_text ==
    <<"{", "\"", "m", "e", "m", "b", "e", "r", "1", "\"", ":", "1",
      "0", "0", ",", "\"", "m", "e", "m", "b", "e", "r", "2", "\"",
      ":", "[", "1", "0", "0", ",", "\"", "a", "b", "c", "\"", ",",
      "t", "r", "u", "e", "]", ",", "\"", "o", "b", "j", "e", "c", "t",
      "\"", ":", "{", "\"", "m", "e", "m", "b", "e", "r", "2", "\"",
      ":", "\"", "s", "t", "r", "i", "n", "g", "\"", ",", "\"", "m",
      "e", "m", "b", "e", "r", "3", "\"", ":", "n", "u", "l", "l", ",",
      "\"", "m", "e", "m", "b", "e", "r", "4", "\"", ":", "-", "4",
      ".", "7", "}", "}">>

sample3 ==
    <<"[", "-", "1", ".", "3", "e", "+", "5", ",", " ", "6", "e", "-", "1", "]">>

NestedTexts ==
    {<<"[", "[", "]", "]">>,
     <<"[", "{", "}", "]">>,
     <<"{", "\"", "a", "\"", ":", "[", "]", "}">>,
     <<"{", "\"", "a", "\"", ":", "{", "}", "}">>,
     <<"[", "[", "1", "]", ",", "{", "\"", "a", "\"", ":", "f", "a", "l", "s", "e", "}", "]">>,
     <<"{", "\"", "a", "\"", ":", "1", ",", "}">>,
     <<"{", "\"", "a", "\"", ":", "1", ",", "\"", "a", "\"", ":", "[", "t", "r", "u", "e", "]", "}">>,
     test_text, sample3}

Texts ==
    ShortTexts
    \cup {Framed(f, v) : f \in Frames, v \in NumberTexts}
    \cup {Framed(f, Quoted(b)) : f \in Frames \cup {KeyFrame}, b \in StringBodies}
    \cup NestedTexts

\* bytes that may follow the terminating NUL of a text in memory
Garbage == {<<>>, <<"]">>, <<"1", "]">>, <<"?">>}

Memory(t, tail) == IF tail = <<>> THEN t ELSE t \o <<NUL>> \o tail

Keys == {<<"a">>, <<"\"">>}
Strings == {<<>>, <<"a">>, <<"a", "\"">>, <<"\\">>}
Ints == {0 - 5, 0, 7}
UInts == {0, 12}
Doubles == {[neg |-> FALSE, m |-> 5, e10 |-> 0 - 1],
            [neg |-> TRUE, m |-> 47, e10 |-> 0 - 1],
            [neg |-> FALSE, m |-> 13, e10 |-> 4]}
Exps == {<<"6", "e", "-", "1">>, <<"e">>}

(***************************************************************************)
(* The client program.  It either builds a tree with the constructive API  *)
(* or parses a text, serializes the tree, parses the serialization and     *)
(* serializes the result again.                                            *)
(*   pc = "start"         building, or nothing done yet                    *)
(*        "parsed"        kzrjson_parse has returned                       *)
(*        "serialized"    kzrjson_to_string has returned                   *)
(*        "reparsed"      kzrjson_parse of that text has returned          *)
(*        "reserialized"  kzrjson_to_string of that tree has returned      *)
(*        "crashed"       the process died on an invalid memory access     *)
(*        "aborted"       the runtime-constraint handler ended the process *)
(***************************************************************************)
RECURSIVE NodeCount(_)
RECURSIVE NodeCountSeq(_)
NodeCount(node) ==
    1 + NodeCountSeq(node.elements)
      + (IF node.value = NULL THEN 0 ELSE NodeCount(node.value[1]))
NodeCountSeq(nodes) ==
    IF Len(nodes) = 0 THEN 0 ELSE NodeCount(nodes[1]) + NodeCountSeq(Tail(nodes))

Top == <<vals[Len(vals)]>>

\* no accessor has been called
NoCall == [call |-> "none", object |-> NULL, key |-> <<>>, node |-> NULL]

InitHeap ==
    /\ heap = <<>>
    /\ added = <<>>
    /\ released = <<>>
    /\ ret = NoCall

Init ==
    /\ json_text = <<>>
    /\ root = NULL
    /\ g_exception = "success"
    /\ out = [text |-> <<>>, length |-> 0]
    /\ vals = <<>>
    /\ source = [tree |-> NULL, text |-> <<>>]
    /\ lexer = set_lexer("success")
    /\ pc = "start"
    /\ InitHeap

\* a kzrjson_make_X call that returned r = [node, exc]
Made(r) ==
    /\ Len(vals) < MaxVals
    /\ NodeCountSeq(vals) < MaxNodes
    /\ g_exception' = r.exc
    /\ vals' = IF r.node = NULL THEN vals ELSE Append(vals, r.node[1])
    /\ UNCHANGED <<json_text, root, out, source, lexer, pc, hvars>>

MakeObject ==
    /\ pc = "start"
    /\ Made([node |-> <<make_object>>, exc |-> "success"])

MakeArray ==
    /\ pc = "start"
    /\ Made([node |-> <<make_array>>, exc |-> "success"])

MakeBoolean ==
    /\ pc = "start"
    /\ \E b \in BOOLEAN : Made([node |-> <<make_boolean(b)>>, exc |-> "success"])

MakeNull ==
    /\ pc = "start"
    /\ Made([node |-> <<make_null>>, exc |-> "success"])

MakeString ==
    /\ pc = "start"
    /\ \E string \in Strings : Made(kzrjson_make_string(string, Len(string)))

MakeNumberInt ==
    /\ pc = "start"
    /\ \E n \in Ints : Made(kzrjson_make_number_int(n))

MakeNumberUint ==
    /\ pc = "start"
    /\ \E n \in UInts : Made(kzrjson_make_number_uint(n))

MakeNumberDouble ==
    /\ pc = "start"
    /\ \E d \in Doubles : Made(kzrjson_make_number_double(d))

MakeNumberExp ==
    /\ pc = "start"
    /\ \E x \in Exps : Made(kzrjson_make_number_exp(x, Len(x)))

\* kzrjson_make_member(key, key_length, value) with the newest value, or NULL
MakeMember ==
    /\ pc = "start"
    /\ NodeCountSeq(vals) < MaxNodes
    /\ \E key \in Keys :
         \/ /\ Len(vals) >= 1
            /\ vals' = [vals EXCEPT ![Len(vals)] =
                           kzrjson_make_member(key, Len(key), Top).node[1]]
         \/ /\ Len(vals) < MaxVals
            /\ vals' = Append(vals, kzrjson_make_member(key, Len(key), NULL).node[1])
    /\ g_exception' = "success"
    /\ UNCHANGED <<json_text, root, out, source, lexer, pc, hvars>>

\* kzrjson_object_add_member(object, member) on the two newest values
ObjectAddMember ==
    /\ pc = "start"
    /\ Len(vals) >= 2
    /\ LET r == kzrjson_object_add_member(<<vals[Len(vals) - 1]>>, Top) IN
       /\ g_exception' = r.exc
       /\ vals' = IF r.ok THEN Append(SubSeq(vals, 1, Len(vals) - 2), r.node[1])
                  ELSE vals
    /\ UNCHANGED <<json_text, root, out, source, lexer, pc, hvars>>

\* kzrjson_array_add_element(array, element) on the two newest values
ArrayAddElement ==
    /\ pc = "start"
    /\ Len(vals) >= 2
    /\ LET r == kzrjson_array_add_element(<<vals[Len(vals) - 1]>>, Top) IN
       /\ g_exception' = r.exc
       /\ vals' = IF r.ok THEN Append(SubSeq(vals, 1, Len(vals) - 2), r.node[1])
                  ELSE vals
    /\ UNCHANGED <<json_text, root, out, source, lexer, pc, hvars>>

\* kzrjson_parse(t) returned: of a new text, or of the serialization.
\* The bytes after the text matter only when the lexer reads them.
Parse ==
    /\ pc \in {"start", "serialized"}
    /\ pc = "start" => vals = <<>>
    /\ \E t \in (IF pc = "start" THEN Texts ELSE {out.text}) :
       \E r0 \in {parse(t)} :
       \E tail \in (IF r0.over THEN Garbage ELSE {<<>>}) :
       \E r \in (IF tail = <<>> THEN {r0} ELSE {parse(Memory(t, tail))}) :
         /\ json_text' = t
         /\ root' = r.node
         /\ g_exception' = r.exc
         /\ lexer' = r.L
    /\ pc' = IF pc = "start" THEN "parsed" ELSE "reparsed"
    /\ UNCHANGED <<out, vals, source, hvars>>

\* kzrjson_parse(t) read beyond the end of t into memory it may not read
ParseCrash ==
    /\ pc \in {"start", "serialized"}
    /\ pc = "start" => vals = <<>>
    /\ \E t \in (IF pc = "start" THEN Texts ELSE {out.text}) :
         /\ parse(t).over
         /\ json_text' = t
    /\ pc' = "crashed"
    /\ UNCHANGED <<root, g_exception, out, vals, source, lexer, hvars>>

\* the argument of kzrjson_to_string: the tree built, or the tree parsed
Argument == IF pc = "start" THEN Top ELSE root

CanSerialize ==
    \/ pc = "start" /\ Len(vals) = 1
    \/ pc \in {"parsed", "reparsed"} /\ root # NULL

\* kzrjson_to_string(data) returned
Serialize ==
    /\ CanSerialize
    /\ \E r \in {to_string(Argument)} :
       /\ ~r.crash
       /\ out' = [text |-> r.text, length |-> r.length]
       /\ source' = IF pc = "reparsed" THEN source
                    ELSE [tree |-> Argument, text |-> r.text]
    /\ root' = Argument
    /\ g_exception' = "success"
    /\ pc' = IF pc = "reparsed" THEN "reserialized" ELSE "serialized"
    /\ UNCHANGED <<json_text, vals, lexer, hvars>>

\* kzrjson_to_string(data) dereferenced the NULL value of a member
SerializeCrash ==
    /\ CanSerialize
    /\ to_string(Argument).crash
    /\ pc' = "crashed"
    /\ g_exception' = "success"
    /\ UNCHANGED <<json_text, root, out, vals, source, lexer, hvars>>

\* strcpy_s reported a runtime-constraint violation and the handler aborted
SerializeAbort ==
    /\ CanSerialize
    /\ \E r \in {to_string(Argument)} : ~r.crash /\ r.violation
    /\ pc' = "aborted"
    /\ g_exception' = "success"
    /\ UNCHANGED <<json_text, root, out, vals, source, lexer, hvars>>

Next ==
    \/ MakeObject \/ MakeArray \/ MakeBoolean \/ MakeNull \/ MakeString
    \/ MakeNumberInt \/ MakeNumberUint \/ MakeNumberDouble \/ MakeNumberExp
    \/ MakeMember \/ ObjectAddMember \/ ArrayAddElement
    \/ Parse \/ ParseCrash \/ Serialize \/ SerializeCrash \/ SerializeAbort

Spec == Init /\ [][Next]_vars

(***************************************************************************)
(* The lexer on its own: get_token is called on a text until it reports    *)
(* the end of the text or raises an exception.                             *)
(***************************************************************************)
LexTexts ==
    ShortTexts
    \cup {<<quotation_mark>> \o b \o rest :
              b \in StringBodies,
              rest \in {<<>>, <<quotation_mark>>, <<quotation_mark, ",">>}}

InitLexer ==
    /\ json_text \in LexTexts
    /\ root = NULL
    /\ g_exception = "success"
    /\ out = [text |-> <<>>, length |-> 0]
    /\ vals = <<>>
    /\ source = [tree |-> NULL, text |-> <<>>]
    /\ lexer = set_lexer("success")
    /\ pc = "lexing"
    /\ InitHeap

GetToken ==
    /\ pc = "lexing"
    /\ lexer.ret # "end_of_text"
    /\ lexer.exc = "success"
    /\ ~lexer.over
    /\ lexer' = get_token(json_text, lexer)
    /\ g_exception' = lexer'.exc
    /\ UNCHANGED <<json_text, root, out, vals, source, pc, hvars>>

NextLexer == GetToken

SpecLexer == InitLexer /\ [][NextLexer]_vars

(***************************************************************************)
(* The constructive API at the level of pointers.  heap[a] is the node at  *)
(* address a; its elements are the addresses stored in the child array and *)
(* its value is <<>> or <<address>>.  The client builds nodes, attaches    *)
(* any node it holds to any other, and ends with one lookup, one           *)
(* kzrjson_free or one kzrjson_parse.                                      *)
(*   pc = "heap"     building                                              *)
(*        "looked"   kzrjson_get_member has returned                       *)
(*        "freed"    kzrjson_free has returned                             *)
(***************************************************************************)
MaxAddrs == 3    \* nodes the client allocates
MaxAdds == 2     \* successful add calls in all
MaxItems == 3    \* elements or members of a parsed container

Addrs == 1..Len(heap)

Pointers == {NULL} \cup {<<a>> : a \in Addrs}

RECURSIVE SumLen(_)
SumLen(seqs) == IF Len(seqs) = 0 THEN 0 ELSE Len(seqs[1]) + SumLen(Tail(seqs))

\* the pointers a node holds: its child array, then its value
ChildPtrs(node) == node.elements \o node.value

\* the addresses kzrjson_inner_free(a) visits to the given depth, in order
RECURSIVE Preorder(_, _, _)
RECURSIVE PreorderSeq(_, _, _, _)
Preorder(h, a, depth) ==
    <<a>> \o (IF depth = 0 THEN <<>>
              ELSE PreorderSeq(h, ChildPtrs(h[a]), 1, depth - 1))
PreorderSeq(h, ptrs, i, depth) ==
    IF i > Len(ptrs) THEN <<>>
    ELSE Preorder(h, ptrs[i], depth) \o PreorderSeq(h, ptrs, i + 1, depth)

NoDup(seq) == \A i, j \in 1..Len(seq) : seq[i] = seq[j] => i = j

\* no node is reached twice from any: neither shared below any nor on a cycle
TreeShaped(h, any) ==
    IF any = NULL THEN TRUE ELSE NoDup(Preorder(h, any[1], Len(h)))

InitHeapClient ==
    /\ json_text = <<>>
    /\ root = NULL
    /\ g_exception = "success"
    /\ out = [text |-> <<>>, length |-> 0]
    /\ vals = <<>>
    /\ source = [tree |-> NULL, text |-> <<>>]
    /\ lexer = set_lexer("success")
    /\ pc = "heap"
    /\ InitHeap

\* a kzrjson_make_X call that returned r = [node, exc]
HeapMade(r) ==
    /\ Len(heap) < MaxAddrs
    /\ g_exception' = r.exc
    /\ heap' = IF r.node = NULL THEN heap ELSE Append(heap, r.node[1])
    /\ added' = IF r.node = NULL THEN added ELSE Append(added, <<>>)
    /\ UNCHANGED <<json_text, root, out, vals, source, lexer, pc, released, ret>>

HeapMakeObject ==
    /\ pc = "heap"
    /\ HeapMade([node |-> <<make_object>>, exc |-> "success"])

HeapMakeArray ==
    /\ pc = "heap"
    /\ HeapMade([node |-> <<make_array>>, exc |-> "success"])

HeapMakeNull ==
    /\ pc = "heap"
    /\ HeapMade([node |-> <<make_null>>, exc |-> "success"])

HeapMakeString ==
    /\ pc = "heap"
    /\ HeapMade(kzrjson_make_string(<<"a">>, 1))

HeapMakeNumberInt ==
    /\ pc = "heap"
    /\ HeapMade(kzrjson_make_number_int(7))

\* kzrjson_make_member(key, key_length, value) with any pointer the client holds
HeapMakeMember ==
    /\ pc = "heap"
    /\ \E key \in Keys, value \in Pointers :
         HeapMade(kzrjson_make_member(key, Len(key), value))

\* an add call that returned r.ok: add_element stored the pointer element
HeapAdded(r, container, element) ==
    /\ g_exception' = r.exc
    /\ heap' = IF r.ok
               THEN [heap EXCEPT ![container] = add_element(<<@>>, <<element>>)[1]]
               ELSE heap
    /\ added' = IF r.ok THEN [added EXCEPT ![container] = Append(@, element)]
                ELSE added
    /\ UNCHANGED <<json_text, root, out, vals, source, lexer, pc, released, ret>>

\* kzrjson_object_add_member(object, member) on any two nodes
HeapObjectAddMember ==
    /\ pc = "heap"
    /\ SumLen(added) < MaxAdds
    /\ \E object \in Addrs, member \in Addrs :
         HeapAdded(kzrjson_object_add_member(<<heap[object]>>, <<heap[member]>>),
                   object, member)

\* kzrjson_array_add_element(array, element) on any two nodes
HeapArrayAddElement ==
    /\ pc = "heap"
    /\ SumLen(added) < MaxAdds
    /\ \E array \in Addrs, element \in Addrs :
         HeapAdded(kzrjson_array_add_element(<<heap[array]>>, <<heap[element]>>),
                   array, element)

strcmp(string1, string2) == IF string1 = string2 THEN 0 ELSE 1

\* a lookup that returns the last member with the key
get_member_last(h, object, key, i) ==
    IF \E j \in i..Len(object.elements) : strcmp(key, h[object.elements[j]].key) = 0
    THEN [node |-> <<object.elements[
                        CHOOSE j \in i..Len(object.elements) :
                            /\ strcmp(key, h[object.elements[j]].key) = 0
                            /\ \A k \in (j + 1)..Len(object.elements) :
                                   strcmp(key, h[object.elements[k]].key) # 0]>>,
          exc |-> "success"]
    ELSE [node |-> NULL, exc |-> "object_key_not_found"]

\* the loop of kzrjson_get_member from child i on, and what follows it
RECURSIVE get_member_loop(_, _, _, _)
get_member_loop(h, object, key, i) ==
    IF i > Len(object.elements)
    THEN [node |-> NULL, exc |-> "object_key_not_found"]
    ELSE IF strcmp(key, h[object.elements[i]].key) = 0
    THEN [node |-> <<object.elements[i]>>, exc |-> "success"]
    ELSE get_member_loop(h, object, key, i + 1)

\* [node, exc] of kzrjson_get_member(object, key) in heap h
kzrjson_get_member(h, object, key) ==
    IF h[object[1]].type # "object" THEN [node |-> NULL, exc |-> "illegal_type"]
    ELSE get_member_loop(h, h[object[1]], key, 1)

\* kzrjson_get_member(object, key) on any node
HeapGetMember ==
    /\ pc = "heap"
    /\ \E object \in Addrs, key \in Keys :
       \E r \in {kzrjson_get_member(heap, <<object>>, key)} :
         /\ g_exception' = r.exc
         /\ ret' = [call |-> "get_member", object |-> <<object>>, key |-> key,
                    node |-> r.node]
    /\ pc' = "looked"
    /\ UNCHANGED <<json_text, root, out, vals, source, lexer, heap, added, released>>

\* free(inner->string) also for true, false and null
free_string_literal(inner, a) == <<<<"string", a>>>>

\* free(inner->string) of a string or a number
free_string(inner, a) ==
    IF inner.type \in {"string", "number"} THEN <<<<"string", a>>>> ELSE <<>>

\* free(inner->key) of a member
free_key(inner, a) == IF inner.type = "member" THEN <<<<"key", a>>>> ELSE <<>>

\* free(inner->elements): free(NULL) releases nothing
free_elements(inner, a) ==
    IF inner.type \in {"array", "object"} /\ Len(inner.elements) > 0
    THEN <<<<"elements", a>>>> ELSE <<>>

\* the blocks kzrjson_inner_free(inner) passes to free(), in order
RECURSIVE heap_inner_free(_, _)
RECURSIVE heap_elements_free(_, _, _)
heap_elements_free(h, inner, i) ==
    IF i > Len(inner.elements) THEN <<>>
    ELSE heap_inner_free(h, <<inner.elements[i]>>)
         \o heap_elements_free(h, inner, i + 1)
heap_inner_free(h, inner) ==
    IF inner = NULL THEN <<>>
    ELSE (IF h[inner[1]].type \in {"array", "object"}
          THEN heap_elements_free(h, h[inner[1]], 1)
               \o free_elements(h[inner[1]], inner[1])
          ELSE IF h[inner[1]].type = "member"
          THEN free_key(h[inner[1]], inner[1])
               \o heap_inner_free(h, h[inner[1]].value)
          ELSE free_string(h[inner[1]], inner[1]))
         \o <<<<"node", inner[1]>>>>

\* kzrjson_free(any) of a tree returned
HeapFree ==
    /\ pc = "heap"
    /\ \E any \in Pointers :
         /\ TreeShaped(heap, any)
         /\ released' = heap_inner_free(heap, any)
         /\ ret' = [call |-> "free", object |-> any, key |-> <<>>, node |-> NULL]
    /\ g_exception' = "success"
    /\ pc' = "freed"
    /\ UNCHANGED <<json_text, root, out, vals, source, lexer, heap, added>>

\* kzrjson_free(any) reached a node it had already freed
HeapFreeCrash ==
    /\ pc = "heap"
    /\ \E any \in Pointers :
         /\ ~TreeShaped(heap, any)
         /\ ret' = [call |-> "free", object |-> any, key |-> <<>>, node |-> NULL]
    /\ g_exception' = "success"
    /\ pc' = "crashed"
    /\ UNCHANGED <<json_text, root, out, vals, source, lexer, heap, added, released>>

\* the items of a container text, separated by commas
RECURSIVE Joined(_)
Joined(items) ==
    IF Len(items) = 0 THEN <<>>
    ELSE IF Len(items) = 1 THEN items[1]
    ELSE items[1] \o <<",">> \o Joined(Tail(items))

Items == {<<"0">>, <<"1">>, literal_true}

ItemSeqs == SeqsUpTo(Items, MaxItems) \ {<<>>}

\* the key of the i-th member of an object text
KeyOf(i) == [k \in 1..i |-> "a"]

ArrayText(items) == <<"[">> \o Joined(items) \o <<"]">>

ObjectText(items) ==
    <<"{">>
    \o Joined([i \in 1..Len(items) |->
                  <<quotation_mark>> \o KeyOf(i) \o <<quotation_mark, ":">>
                  \o items[i]])
    \o <<"}">>

OrderTexts == {ArrayText(s) : s \in ItemSeqs} \cup {ObjectText(s) : s \in ItemSeqs}

\* kzrjson_parse(t) of a container text returned, before anything is built
HeapParse ==
    /\ pc = "heap"
    /\ heap = <<>>
    /\ \E t \in OrderTexts :
       \E r \in {parse(t)} :
         /\ ~r.over
         /\ json_text' = t
         /\ root' = r.node
         /\ g_exception' = r.exc
         /\ lexer' = r.L
    /\ pc' = "parsed"
    /\ UNCHANGED <<out, vals, source, hvars>>

NextHeap ==
    \/ HeapMakeObject \/ HeapMakeArray \/ HeapMakeNull \/ HeapMakeString
    \/ HeapMakeNumberInt
    \/ HeapMakeMember \/ HeapObjectAddMember \/ HeapArrayAddElement
    \/ HeapGetMember \/ HeapFree \/ HeapFreeCrash \/ HeapParse

SpecHeap == InitHeapClient /\ [][NextHeap]_vars

(***************************************************************************)
(* Numbers over the whole width of int64_t.  An int64_t is held as a sign  *)
(* and three limbs, the decimal digits 19..15, 14..8 and 7..1 of its       *)
(* magnitude: [neg, limbs].  The client makes one Number and reads it      *)
(* through one of the accessors.                                           *)
(*   pc = "number"   nothing done yet                                      *)
(*        "made"     kzrjson_make_number_* has returned                    *)
(*        "read"     kzrjson_get_number_as_* has returned                  *)
(***************************************************************************)
Int64(neg, high, middle, low) == [neg |-> neg, limbs |-> <<high, middle, low>>]

INT64_MAX == Int64(FALSE, 92233, 7203685, 4775807)

INT64_MIN == Int64(TRUE, 92233, 7203685, 4775808)

\* x <= y for limbs
LimbsLeq(x, y) ==
    IF x[1] # y[1] THEN x[1] < y[1]
    ELSE IF x[2] # y[2] THEN x[2] < y[2]
    ELSE x[3] <= y[3]

InInt64(n) ==
    LimbsLeq(n.limbs, IF n.neg THEN INT64_MIN.limbs ELSE INT64_MAX.limbs)

\* the digits without their leading zeros; one digit is always left
RECURSIVE StripZeros(_)
StripZeros(digits) ==
    IF Len(digits) > 1 /\ digits[1] = "0" THEN StripZeros(Tail(digits)) ELSE digits

\* "%lld" of an int64_t
FormatLld64(n) ==
    (IF n.neg THEN <<minus>> ELSE <<>>)
    \o StripZeros(NatDigits(n.limbs[1])
                  \o PadZeros(NatDigits(n.limbs[2]), 7)
                  \o PadZeros(NatDigits(n.limbs[3]), 7))

\* the int64_t of a sign and at most 19 digits, already padded to 19;
\* what lies outside int64_t is ERANGE: LLONG_MIN or LLONG_MAX
strtoll64_value(neg, padded) ==
    IF ~InInt64(Int64(neg, DigitsValue(padded, 1, 6), DigitsValue(padded, 6, 13),
                      DigitsValue(padded, 13, 20)))
    THEN (IF neg THEN INT64_MIN ELSE INT64_MAX)
    ELSE Int64(neg /\ StripZeros(padded) # <<"0">>,
               DigitsValue(padded, 1, 6), DigitsValue(padded, 6, 13),
               DigitsValue(padded, 13, 20))

\* [conv, value] once the digits s[j..k-1] are known
strtoll64_digits(s, neg, j, k) ==
    IF k = j THEN [conv |-> FALSE, value |-> Int64(FALSE, 0, 0, 0)]
    ELSE IF Len(StripZeros(SubSeq(s, j, k - 1))) > 19
    THEN [conv |-> TRUE, value |-> IF neg THEN INT64_MIN ELSE INT64_MAX]
    ELSE [conv |-> TRUE,
          value |-> strtoll64_value(neg,
                        PadZeros(StripZeros(SubSeq(s, j, k - 1)), 19))]

\* the optional sign at s[i]
strtoll64_sign(s, i) ==
    IF SeqAt(s, i) \in {minus, plus}
    THEN strtoll64_digits(s, SeqAt(s, i) = minus, i + 1, DigitsEnd(s, i + 1))
    ELSE strtoll64_digits(s, FALSE, i, DigitsEnd(s, i))

\* strtoll(s, &end, 10) over the whole width
strtoll64(s) == strtoll64_sign(s, SkipSpace(s, 1))

\* make_number(number, kzrjson_int) over the whole width
make_number64(number) ==
    make_number_set([make_json("number", number) EXCEPT !.number_type = "int"],
                    "int", strtoll64(number))

\* kzrjson_make_number_int(number) over the whole width
kzrjson_make_number_int64(number) ==
    make_number64(snprintf(int64_t_max_digit + 1, FormatLld64(number)))

\* every int64_t whose limbs are taken from these
HighLimbs == {0, 1, 9999, 10000, 92233}
MiddleLimbs == {0, 1, 7203685, 9999999}
LowLimbs == {0, 7, 4775807, 4775808, 9999999}

Int64s ==
    {n \in {Int64(neg, high, middle, low) :
                neg \in BOOLEAN, high \in HighLimbs, middle \in MiddleLimbs,
                low \in LowLimbs} :
        InInt64(n) /\ ~(n.neg /\ n.limbs = <<0, 0, 0>>)}

kzrjson_is_number(data) ==
    IF data = NULL THEN FALSE ELSE data[1].type = "number"

\* the member of the union that make_number wrote
union_written(inner) ==
    IF inner.number_type = "int" THEN "number_integer"
    ELSE IF inner.number_type = "uint" THEN "number_unsigned_integer"
    ELSE "number_double"

\* inner->member: the bytes of the member written, read as member
union_read(inner, member) ==
    [member |-> member,
     written |-> union_written(inner),
     bytes |-> IF inner.number_type = "int" THEN inner.number_int
               ELSE IF inner.number_type = "uint" THEN inner.number_uint
               ELSE inner.number_double]

\* [value, exc] of an accessor that returns the member of the union
get_number_as(number, member) ==
    IF ~kzrjson_is_number(number)
    THEN [value |-> 0, exc |-> "illegal_type"]
    ELSE [value |-> union_read(number[1], member), exc |-> "success"]

kzrjson_get_number_as_integer(number) == get_number_as(number, "number_integer")

kzrjson_get_number_as_unsigned_integer(number) ==
    get_number_as(number, "number_unsigned_integer")

kzrjson_get_number_as_double(number) == get_number_as(number, "number_double")

InitNumber ==
    /\ json_text = <<>>
    /\ root = NULL
    /\ g_exception = "success"
    /\ out = [text |-> <<>>, length |-> 0]
    /\ vals = <<>>
    /\ source = [tree |-> NULL, text |-> <<>>]
    /\ lexer = set_lexer("success")
    /\ pc = "number"
    /\ InitHeap

\* kzrjson_make_number_X(number) returned r = [node, exc]
NumberMade(call, number, r) ==
    /\ g_exception' = r.exc
    /\ root' = r.node
    /\ ret' = [call |-> call, object |-> number, key |-> <<>>, node |-> r.node]
    /\ pc' = "made"
    /\ UNCHANGED <<json_text, out, vals, source, lexer, heap, added, released>>

NumberMakeInt ==
    /\ pc = "number"
    /\ \E number \in Int64s :
         NumberMade("make_number_int", number, kzrjson_make_number_int64(number))

NumberMakeUint ==
    /\ pc = "number"
    /\ \E number \in UInts :
         NumberMade("make_number_uint", number, kzrjson_make_number_uint(number))

NumberMakeDouble ==
    /\ pc = "number"
    /\ \E number \in Doubles :
         NumberMade("make_number_double", number, kzrjson_make_number_double(number))

\* an accessor returned r = [value, exc]
NumberRead(call, r) ==
    /\ g_exception' = r.exc
    /\ ret' = [call |-> call, object |-> root, key |-> <<>>, node |-> r.value]
    /\ pc' = "read"
    /\ UNCHANGED <<json_text, root, out, vals, source, lexer, heap, added, released>>

NumberGetInteger ==
    /\ pc = "made"
    /\ root # NULL
    /\ NumberRead("get_number_as_integer", kzrjson_get_number_as_integer(root))

NumberGetUnsignedInteger ==
    /\ pc = "made"
    /\ root # NULL
    /\ NumberRead("get_number_as_unsigned_integer",
                  kzrjson_get_number_as_unsigned_integer(root))

NumberGetDouble ==
    /\ pc = "made"
    /\ root # NULL
    /\ NumberRead("get_number_as_double", kzrjson_get_number_as_double(root))

NextNumber ==
    \/ NumberMakeInt \/ NumberMakeUint \/ NumberMakeDouble
    \/ NumberGetInteger \/ NumberGetUnsignedInteger \/ NumberGetDouble

SpecNumber == InitNumber /\ [][NextNumber]_vars

(***************************************************************************)
(* Allocation failures.  The client builds values with the constructive    *)
(* API while calloc and realloc may return NULL; it stops after the first  *)
(* call in which an allocation failed.  ok says that the allocation of the *)
(* call succeeds.  A make call yields [node, exc, deref]: deref says that  *)
(* the call read or wrote through the NULL it got.                         *)
(*   pc = "alloc"    building                                              *)
(*        "failed"   a call in which an allocation failed has returned     *)
(*        "crashed"  the process died on the access through NULL           *)
(***************************************************************************)
\* make_json when calloc returns NULL
make_json_failed ==
    [node |-> NULL, exc |-> "failed_to_allocate_memory", deref |-> FALSE]

\* a make call in which every allocation succeeded: r is its [node, exc]
make_succeeded(r) == [node |-> r.node, exc |-> r.exc, deref |-> FALSE]

\* make_boolean: json->boolean = boolean follows make_json unchecked
make_boolean_alloc(boolean, ok) ==
    IF ok THEN make_succeeded([node |-> <<make_boolean(boolean)>>, exc |-> "success"])
    ELSE [make_json_failed EXCEPT !.deref = TRUE]

\* make_member: the exception is caught before data->key is set
make_member_alloc(key, ok) ==
    IF ok THEN make_succeeded([node |-> <<make_member(key)>>, exc |-> "success"])
    ELSE make_json_failed

kzrjson_make_object_alloc(ok) ==
    IF ok THEN make_succeeded([node |-> <<make_object>>, exc |-> "success"])
    ELSE make_json_failed

kzrjson_make_array_alloc(ok) ==
    IF ok THEN make_succeeded([node |-> <<make_array>>, exc |-> "success"])
    ELSE make_json_failed

kzrjson_make_null_alloc(ok) ==
    IF ok THEN make_succeeded([node |-> <<make_null>>, exc |-> "success"])
    ELSE make_json_failed

kzrjson_make_boolean_alloc(boolean, ok) == make_boolean_alloc(boolean, ok)

kzrjson_make_string_alloc(string, length, ok) ==
    IF ok THEN make_succeeded(kzrjson_make_string(string, length))
    ELSE make_json_failed

kzrjson_make_number_int_alloc(number, ok) ==
    IF ok THEN make_succeeded(kzrjson_make_number_int(number))
    ELSE make_json_failed

\* add_value(member, value) is reached only with the member made
kzrjson_make_member_alloc(key, key_length, value, ok) ==
    IF ok THEN make_succeeded(kzrjson_make_member(key, key_length, value))
    ELSE make_member_alloc(copy_string(key, 1, key_length), ok)

\* [ok, node, exc]: add_element returns nothing, so true is returned also
\* when it threw the exception
kzrjson_object_add_member_alloc(object, member, ok) ==
    IF object[1].type # "object" \/ member[1].type # "member"
    THEN [ok |-> FALSE, node |-> object, exc |-> "illegal_type"]
    ELSE IF ok THEN kzrjson_object_add_member(object, member)
    ELSE [ok |-> TRUE, node |-> add_element_failed(object, member),
          exc |-> "failed_to_allocate_memory"]

kzrjson_array_add_element_alloc(array, element, ok) ==
    IF array[1].type # "array"
    THEN [ok |-> FALSE, node |-> array, exc |-> "illegal_type"]
    ELSE IF ok THEN kzrjson_array_add_element(array, element)
    ELSE [ok |-> TRUE, node |-> add_element_failed(array, element),
          exc |-> "failed_to_allocate_memory"]

InitAlloc ==
    /\ json_text = <<>>
    /\ root = NULL
    /\ g_exception = "success"
    /\ out = [text |-> <<>>, length |-> 0]
    /\ vals = <<>>
    /\ source = [tree |-> NULL, text |-> <<>>]
    /\ lexer = set_lexer("success")
    /\ pc = "alloc"
    /\ InitHeap

\* a kzrjson_make_X call returned r = [node, exc, deref] without a crash
AllocMade(ok, r) ==
    /\ Len(vals) < MaxVals
    /\ NodeCountSeq(vals) < MaxNodes
    /\ g_exception' = r.exc
    /\ vals' = IF r.node = NULL THEN vals ELSE Append(vals, r.node[1])
    /\ ret' = [call |-> "make", object |-> NULL, key |-> <<>>, node |-> r.node,
               ok |-> ok, deref |-> r.deref]
    /\ pc' = IF ok THEN "alloc" ELSE "failed"
    /\ UNCHANGED <<json_text, root, out, source, lexer, heap, added, released>>

AllocMakeObject ==
    /\ pc = "alloc"
    /\ \E ok \in BOOLEAN : AllocMade(ok, kzrjson_make_object_alloc(ok))

AllocMakeArray ==
    /\ pc = "alloc"
    /\ \E ok \in BOOLEAN : AllocMade(ok, kzrjson_make_array_alloc(ok))

AllocMakeNull ==
    /\ pc = "alloc"
    /\ \E ok \in BOOLEAN : AllocMade(ok, kzrjson_make_null_alloc(ok))

\* kzrjson_make_boolean returned: after a failure only if the write through
\* NULL did not end the process
AllocMakeBoolean ==
    /\ pc = "alloc"
    /\ \E ok \in BOOLEAN, boolean \in BOOLEAN :
         AllocMade(ok, kzrjson_make_boolean_alloc(boolean, ok))

AllocMakeString ==
    /\ pc = "alloc"
    /\ \E ok \in BOOLEAN : AllocMade(ok, kzrjson_make_string_alloc(<<"a">>, 1, ok))

AllocMakeNumberInt ==
    /\ pc = "alloc"
    /\ \E ok \in BOOLEAN, number \in Ints :
         AllocMade(ok, kzrjson_make_number_int_alloc(number, ok))

\* kzrjson_make_member(key, key_length, value) with the newest value
AllocMakeMember ==
    /\ pc = "alloc"
    /\ Len(vals) >= 1
    /\ NodeCountSeq(vals) < MaxNodes
    /\ \E ok \in BOOLEAN, key \in Keys :
       \E r \in {kzrjson_make_member_alloc(key, Len(key), Top, ok)} :
         /\ g_exception' = r.exc
         /\ vals' = IF r.node = NULL THEN vals
                    ELSE [vals EXCEPT ![Len(vals)] = r.node[1]]
         /\ ret' = [call |-> "make", object |-> NULL, key |-> key, node |-> r.node,
                    ok |-> ok, deref |-> r.deref]
         /\ pc' = IF ok THEN "alloc" ELSE "failed"
    /\ UNCHANGED <<json_text, root, out, source, lexer, heap, added, released>>

\* make_boolean wrote through the NULL that make_json returned
AllocMakeBooleanCrash ==
    /\ pc = "alloc"
    /\ Len(vals) < MaxVals
    /\ NodeCountSeq(vals) < MaxNodes
    /\ \E boolean \in BOOLEAN :
         /\ kzrjson_make_boolean_alloc(boolean, FALSE).deref
         /\ ret' = [call |-> "make", object |-> NULL, key |-> <<>>, node |-> NULL,
                    ok |-> FALSE, deref |-> TRUE]
    /\ g_exception' = "failed_to_allocate_memory"
    /\ pc' = "crashed"
    /\ UNCHANGED <<json_text, root, out, vals, source, lexer, heap, added, released>>

\* an add call on the two newest values returned r = [ok, node, exc]
AllocAdded(ok, r) ==
    /\ g_exception' = r.exc
    /\ vals' = IF r.ok THEN Append(SubSeq(vals, 1, Len(vals) - 2), r.node[1])
               ELSE vals
    /\ ret' = [call |-> "add", object |-> <<vals[Len(vals) - 1]>>, key |-> <<>>,
               node |-> r.ok, ok |-> ok, deref |-> FALSE]
    /\ pc' = IF ok THEN "alloc" ELSE "failed"
    /\ UNCHANGED <<json_text, root, out, source, lexer, heap, added, released>>

AllocObjectAddMember ==
    /\ pc = "alloc"
    /\ Len(vals) >= 2
    /\ \E ok \in BOOLEAN :
         AllocAdded(ok, kzrjson_object_add_member_alloc(<<vals[Len(vals) - 1]>>,
                                                        Top, ok))

AllocArrayAddElement ==
    /\ pc = "alloc"
    /\ Len(vals) >= 2
    /\ \E ok \in BOOLEAN :
         AllocAdded(ok, kzrjson_array_add_element_alloc(<<vals[Len(vals) - 1]>>,
                                                        Top, ok))

NextAlloc ==
    \/ AllocMakeObject \/ AllocMakeArray \/ AllocMakeNull \/ AllocMakeBoolean
    \/ AllocMakeString \/ AllocMakeNumberInt \/ AllocMakeMember
    \/ AllocMakeBooleanCrash \/ AllocObjectAddMember \/ AllocArrayAddElement

SpecAlloc == InitAlloc /\ [][NextAlloc]_vars

(***************************************************************************)
(* The revision that reports errors through kzrjson_errno().  Its lexer    *)
(* and parser are those above with set_kzrjson_errno for throw_exception   *)
(* and kzrjson_err_calloc for failed_to_allocate_memory; g_errno is        *)
(* g_exception.  Its kzrjson_parse calls kzrjson_free on the partial       *)
(* result and returns NULL; kzrjson_free begins with kzrjson_set_success.  *)
(***************************************************************************)
kzrjson_set_success(L) == exception_set_success(L)

\* kzrjson_free(any): kzrjson_set_success(), then the tree is freed
kzrjson_free_errno(L, any) == free(kzrjson_set_success(L), kzrjson_inner_free(any))

\* the end of kzrjson_parse: r is what parse_json_text returned
parse_return_errno(r) ==
    IF kzrjson_catch_exception(r.L)
    THEN parse_null(kzrjson_free_errno(r.L, r.node))
    ELSE [node |-> r.node, exc |-> "success", over |-> r.L.over,
          L |-> [r.L EXCEPT !.pos = 0]]

\* kzrjson_parse on memory m, beginning with kzrjson_set_success()
kzrjson_parse_errno(m) ==
    parse_return_errno(parse_json_text(m, set_lexer("success")))

\* kzrjson_errno()
kzrjson_errno == g_exception

InitErrno ==
    /\ json_text = <<>>
    /\ root = NULL
    /\ g_exception = "success"
    /\ out = [text |-> <<>>, length |-> 0]
    /\ vals = <<>>
    /\ source = [tree |-> NULL, text |-> <<>>]
    /\ lexer = set_lexer("success")
    /\ pc = "errno"
    /\ InitHeap

\* kzrjson_parse(t) returned.  The bytes after the text matter only when
\* the lexer reads them.
ErrnoParse ==
    /\ pc = "errno"
    /\ \E t \in Texts :
       \E r0 \in {kzrjson_parse_errno(t)} :
       \E tail \in (IF r0.over THEN Garbage ELSE {<<>>}) :
       \E r \in (IF tail = <<>> THEN {r0} ELSE {kzrjson_parse_errno(Memory(t, tail))}) :
         /\ json_text' = t
         /\ root' = r.node
         /\ g_exception' = r.exc
         /\ lexer' = r.L
    /\ pc' = "parsed"
    /\ UNCHANGED <<out, vals, source, hvars>>

\* kzrjson_parse(t) read beyond the end of t into memory it may not read
ErrnoParseCrash ==
    /\ pc = "errno"
    /\ \E t \in Texts :
         /\ kzrjson_parse_errno(t).over
         /\ json_text' = t
    /\ pc' = "crashed"
    /\ UNCHANGED <<root, g_exception, out, vals, source, lexer, hvars>>

\* kzrjson_errno() is called right after kzrjson_parse returned
ErrnoGet ==
    /\ pc = "parsed"
    /\ ret' = [call |-> "kzrjson_errno", object |-> root, key |-> <<>>,
               node |-> kzrjson_errno]
    /\ pc' = "asked"
    /\ UNCHANGED <<json_text, root, g_exception, out, vals, source, lexer,
                   heap, added, released>>

NextErrno == ErrnoParse \/ ErrnoParseCrash \/ ErrnoGet

SpecErrno == InitErrno /\ [][NextErrno]_vars

(***************************************************************************)
(* The grammar of JSON texts without insignificant whitespace:             *)
(*   value  = false / null / true / string / object / array / number      *)
(*   object = '{' [ member (',' member)* ] '}'                             *)
(*   array  = '[' [ value (',' value)* ] ']'                               *)
(*   member = string ':' value                                             *)
(*   number = ['-'] int ['.' 1*digit] [('e'|'E') ['+'|'-'] 1*digit]        *)
(*   int    = '0' | digit1-9 *digit                                        *)
(* Each G operator takes a text t and an index i and gives the index just  *)
(* after the phrase that starts at t[i], or 0 when there is none.          *)
(***************************************************************************)
GDigits(t, i) == IF SeqAt(t, i) \in digit0_9 THEN DigitsEnd(t, i) ELSE 0

GInt(t, i) ==
    IF SeqAt(t, i) = "0" THEN i + 1
    ELSE IF SeqAt(t, i) \in digit0_9 THEN DigitsEnd(t, i)
    ELSE 0

GFrac(t, i) ==
    IF i = 0 THEN 0
    ELSE IF SeqAt(t, i) = "." THEN GDigits(t, i + 1)
    ELSE i

GExp(t, i) ==
    IF i = 0 THEN 0
    ELSE IF SeqAt(t, i) \in {"e", "E"}
    THEN GDigits(t, IF SeqAt(t, i + 1) \in {"+", "-"} THEN i + 2 ELSE i + 1)
    ELSE i

GNumber(t, i) == GExp(t, GFrac(t, GInt(t, IF SeqAt(t, i) = "-" THEN i + 1 ELSE i)))

IsNumber(s) == GNumber(s, 1) = Len(s) + 1

HasMinus(s) == SeqAt(s, 1) = "-"

HasFracOrExp(s) == \E i \in 1..Len(s) : s[i] \in {".", "e", "E"}

\* the characters of a string after its opening quotation mark
RECURSIVE GChars(_, _)
GChars(t, i) ==
    IF i > Len(t) THEN 0
    ELSE IF t[i] = "\"" THEN i + 1
    ELSE IF t[i] = "\\"
    THEN IF SeqAt(t, i + 1) \in {"\"", "\\", "/", "b", "f", "n", "r", "t", "u"}
         THEN GChars(t, i + 2) ELSE 0
    ELSE GChars(t, i + 1)

GString(t, i) == IF SeqAt(t, i) = "\"" THEN GChars(t, i + 1) ELSE 0

GWord(t, i, word) ==
    IF \A k \in 1..Len(word) : SeqAt(t, i + k - 1) = word[k] THEN i + Len(word) ELSE 0

RECURSIVE GValue(_, _, _)
RECURSIVE GMembers(_, _, _)
RECURSIVE GValues(_, _, _)

\* empty tells whether an object or array may have no children
GValue(t, i, empty) ==
    IF i = 0 \/ i > Len(t) THEN 0
    ELSE IF t[i] = "f" THEN GWord(t, i, <<"f", "a", "l", "s", "e">>)
    ELSE IF t[i] = "n" THEN GWord(t, i, <<"n", "u", "l", "l">>)
    ELSE IF t[i] = "t" THEN GWord(t, i, <<"t", "r", "u", "e">>)
    ELSE IF t[i] = "\"" THEN GString(t, i)
    ELSE IF t[i] = "{"
    THEN IF empty /\ SeqAt(t, i + 1) = "}" THEN i + 2 ELSE GMembers(t, i + 1, empty)
    ELSE IF t[i] = "["
    THEN IF empty /\ SeqAt(t, i + 1) = "]" THEN i + 2 ELSE GValues(t, i + 1, empty)
    ELSE GNumber(t, i)

\* member (',' member)* '}'
GMembers(t, i, empty) ==
    LET k == GString(t, i)
        v == IF k # 0 /\ SeqAt(t, k) = ":" THEN GValue(t, k + 1, empty) ELSE 0
    IN  IF v = 0 THEN 0
        ELSE IF SeqAt(t, v) = "}" THEN v + 1
        ELSE IF SeqAt(t, v) = "," THEN GMembers(t, v + 1, empty)
        ELSE 0

\* value (',' value)* ']'
GValues(t, i, empty) ==
    LET v == GValue(t, i, empty)
    IN  IF v = 0 THEN 0
        ELSE IF SeqAt(t, v) = "]" THEN v + 1
        ELSE IF SeqAt(t, v) = "," THEN GValues(t, v + 1, empty)
        ELSE 0

\* t is a JSON text whose root is an object or array
IsDocument(t, empty) ==
    /\ Len(t) > 0
    /\ t[1] \in {"{", "["}
    /\ GValue(t, 1, empty) = Len(t) + 1

\* t is v between the prefix f[1] and the suffix f[2]
IsFramed(f, t) ==
    /\ Len(t) >= Len(f[1]) + Len(f[2])
    /\ SubSeq(t, 1, Len(f[1])) = f[1]
    /\ SubSeq(t, Len(t) - Len(f[2]) + 1, Len(t)) = f[2]

Unframed(f, t) == SubSeq(t, Len(f[1]) + 1, Len(t) - Len(f[2]))

\* the node a frame puts its value at: the root, the first element, or the
\* value of the first member
Framed_node(f, ptr) ==
    IF f[1] = <<>> THEN ptr[1]
    ELSE IF f[1] = <<"[">> THEN ptr[1].elements[1]
    ELSE ptr[1].elements[1].value[1]

(***************************************************************************)
(* Claims                                                                  *)
(***************************************************************************)

\* C1: for every tree v built by the constructive API or returned by
\* kzrjson_parse, parsing kzrjson_to_string(v) succeeds and serializing the
\* result gives the same text: to_string(parse(to_string(v))) = to_string(v).
C1_RoundTripText ==
    /\ pc = "reparsed" => root # NULL /\ g_exception = "success"
    /\ pc = "reserialized" => out.text = source.text

\* C2: for every tree v built by the constructive API or by kzrjson_parse,
\* kzrjson_parse(kzrjson_to_string(v)) is structurally equal to v: same
\* variants, children, keys, strings, number classifications and values.
C2_RoundTripTree ==
    pc = "reparsed" => root = source.tree

\* C3: for every whitespace-free text t of the grammar whose root is an
\* object or array and in which every object and array has a child,
\* kzrjson_parse(t) succeeds and kzrjson_to_string of the result returns t
\* byte for byte with length strlen(t).
C3_CanonicalText ==
    IsDocument(json_text, FALSE) =>
        /\ pc = "parsed" => root # NULL /\ g_exception = "success"
        /\ pc \notin {"crashed", "aborted"}
        /\ pc = "serialized" => out.text = json_text /\ out.length = Len(json_text)

\* the text of test_kzrjson_to_string has been parsed and serialized
C3_Witness ==
    /\ pc = "serialized"
    /\ json_text = test_text
    /\ out.text = test_text

EmptyContainerTexts ==
    {<<"{", "}">>, <<"[", "]">>,
     <<"[", "[", "]", "]">>,
     <<"[", "{", "}", "]">>,
     <<"{", "\"", "a", "\"", ":", "[", "]", "}">>,
     <<"{", "\"", "a", "\"", ":", "{", "}", "}">>}

\* C4: kzrjson_parse of "{}" returns an object without children and of "[]"
\* an array without children, with no exception set; the same holds for an
\* empty object or array that is a member value or an array element.
C4_EmptyContainers ==
    (pc = "parsed" /\ json_text \in EmptyContainerTexts) =>
        /\ root # NULL
        /\ g_exception = "success"
        /\ json_text = <<"{", "}">> => root[1].type = "object" /\ root[1].elements = <<>>
        /\ json_text = <<"[", "]">> => root[1].type = "array" /\ root[1].elements = <<>>

\* C5: kzrjson_parse of a text that is one number literal succeeds and
\* returns a Number for the whole literal: unsigned class without a minus,
\* fraction or exponent, signed with a minus only, double class with a
\* fraction or exponent; the stored text is the complete literal.
C5_ScalarNumber ==
    (pc = "parsed" /\ IsNumber(json_text)) =>
        /\ root # NULL
        /\ g_exception = "success"
        /\ root[1].type = "number"
        /\ root[1].string = json_text
        /\ HasFracOrExp(json_text) => root[1].number_type \in {"double", "exp"}
        /\ (~HasFracOrExp(json_text) /\ HasMinus(json_text)) =>
               root[1].number_type = "int"
        /\ (~HasFracOrExp(json_text) /\ ~HasMinus(json_text)) =>
               root[1].number_type = "uint"

\* frames in which the value is directly followed by ',', ']' or '}'
SeparatorFrames ==
    {<<<<"[">>, <<"]">>>>,
     <<<<"[">>, <<",", "1", "]">>>>,
     <<<<"{", "\"", "a", "\"", ":">>, <<"}">>>>}

C7_NumberText ==
    \A f \in Frames :
        (/\ pc = "parsed"
         /\ root # NULL
         /\ IsFramed(f, json_text)
         /\ IsNumber(Unframed(f, json_text))) =>
            /\ Framed_node(f, root).type = "number"
            /\ Framed_node(f, root).string = Unframed(f, json_text)

\* C8: kzrjson_parse succeeds only if every number in the text matches
\* [minus] int [frac] [exp]: an array whose only element is made of number
\* characters and is not such a literal is rejected with an exception and
\* a NULL result.
C8_NumberGrammar ==
    LET f == <<<<"[">>, <<"]">>>> IN
    (/\ pc = "parsed"
     /\ IsFramed(f, json_text)
     /\ Len(json_text) > 2
     /\ \A i \in 2..(Len(json_text) - 1) : json_text[i] \in NumberChars
     /\ ~IsNumber(Unframed(f, json_text))) =>
        /\ root = NULL
        /\ g_exception # "success"

\* the number of backslashes in a row that end at t[j], from t[s] on
RECURSIVE BackslashRun(_, _, _)
BackslashRun(t, s, j) ==
    IF j < s \/ SeqAt(t, j) # "\\" THEN 0 ELSE 1 + BackslashRun(t, s, j - 1)

\* t[j] is the target of an escaping backslash of the string that starts at t[s]
Escaped(t, s, j) == BackslashRun(t, s, j - 1) % 2 = 1

\* the quotation marks that can close the string that starts at t[s]
Closing(t, s) == {j \in s..Len(t) : t[j] = "\"" /\ ~Escaped(t, s, j)}

FirstClosing(t, s) == CHOOSE j \in Closing(t, s) : \A k \in Closing(t, s) : j <= k

\* an escaping backslash before t[limit] with a target that is not permitted
BadEscape(t, s, limit) ==
    \E j \in s..(limit - 1) :
        /\ t[j] = "\\"
        /\ ~Escaped(t, s, j)
        /\ SeqAt(t, j + 1) \notin {"\"", "\\", "/", "b", "f", "n", "r", "t", "u"}

\* C9: set_token_string raises the tokenize exception for a backslash
\* followed by a character that is no escape target or by the end of the
\* text, and for a string without closing quotation mark; otherwise the
\* token ends at the first quotation mark that is not escaped, its span is
\* the raw characters between the quotation marks with an escape counted
\* as two characters, and the cursor is left just after the closing mark.
C9_StringToken ==
    [][(pc = "lexing" /\ SeqAt(json_text, lexer.pos) = "\"") =>
          LET s == lexer.pos + 1 IN
          IF Closing(json_text, s) = {} \/ BadEscape(json_text, s, FirstClosing(json_text, s))
          THEN lexer'.exc = "tokenize" /\ lexer'.ret = "error"
          ELSE /\ lexer'.exc = "success"
               /\ lexer'.type = "string"
               /\ lexer'.begin = s
               /\ lexer'.length = FirstClosing(json_text, s) - s
               /\ lexer'.pos = FirstClosing(json_text, s) + 1]_vars

\* the token of "\"a", has been read: an escaped quotation mark inside
C9_Witness ==
    /\ pc = "lexing"
    /\ json_text = <<"\"", "\\", "\"", "a", "\"", ",">>
    /\ lexer.type = "string"
    /\ lexer.begin = 2
    /\ lexer.length = 3
    /\ lexer.pos = 6

\* frames around a string value, and the frame of a member key
StringFrames == SeparatorFrames \cup {<<<<>>, <<>>>>}

\* b when u is the string "b" of the grammar, <<"?">> (no string body has
\* a question mark) when it is not
Body(u) ==
    IF Len(u) >= 2 /\ GString(u, 1) = Len(u) + 1 THEN SubSeq(u, 2, Len(u) - 1)
    ELSE <<"?">>

\* C10: the content of a String node produced by kzrjson_parse, and the key
\* of a parsed Member, is the exact raw character sequence between the
\* quotation marks, every escape kept as backslash plus target character.
C10_RawString ==
    /\ \A f \in StringFrames :
         (/\ pc = "parsed"
          /\ IsFramed(f, json_text)
          /\ Body(Unframed(f, json_text)) # <<"?">>) =>
             /\ root # NULL
             /\ Framed_node(f, root).type = "string"
             /\ Framed_node(f, root).string = Body(Unframed(f, json_text))
    /\ (/\ pc = "parsed"
        /\ IsFramed(KeyFrame, json_text)
        /\ Body(Unframed(KeyFrame, json_text)) # <<"?">>) =>
           /\ root # NULL
           /\ root[1].elements[1].type = "member"
           /\ root[1].elements[1].key = Body(Unframed(KeyFrame, json_text))

\* ["\"a"] has been parsed: the string keeps its backslash
C10_Witness ==
    /\ pc = "parsed"
    /\ json_text = <<"[", "\"", "\\", "\"", "a", "\"", "]">>
    /\ root # NULL
    /\ root[1].elements[1].string = <<"\\", "\"", "a">>

\* the texts of the grammar with an object or array as root
Documents == {d \in Texts : IsDocument(d, TRUE)}

\* a text that ends before its root object or array is closed
Truncated == UNION {{SubSeq(d, 1, k) : k \in 1..(Len(d) - 1)} : d \in Documents}

\* an object text with a comma directly before its closing '}'
TrailingComma ==
    {SubSeq(d, 1, Len(d) - 1) \o <<",", "}">> : d \in {x \in Documents : x[1] = "{"}}

\* C11: kzrjson_parse of an object text with a comma directly before the
\* closing '}' fails with the parse exception, and of a text that ends
\* before an open array or object is closed with the parse or tokenize
\* exception; the result is NULL and the call returns normally.
C11_Malformed ==
    /\ json_text \in Truncated =>
          /\ pc # "crashed"
          /\ pc = "parsed" => root = NULL /\ g_exception \in {"parse", "tokenize"}
    /\ json_text \in TrailingComma =>
          /\ pc # "crashed"
          /\ pc = "parsed" => root = NULL /\ g_exception = "parse"

\* C12: if get_token raises the tokenize exception at any point during
\* kzrjson_parse, the exception reported when kzrjson_parse returns is the
\* tokenize exception: no later parse or not_number exception replaces it.
C12_TokenizeKept ==
    (pc = "parsed" /\ "tokenize" \in lexer.raised) => g_exception = "tokenize"

\* C13: whenever kzrjson_parse fails, every node, child array and text
\* buffer allocated during the call has been freed when it returns.
C13_NoLeak ==
    (pc = "parsed" /\ root = NULL) => lexer.allocs = 0

\* C14: kzrjson_parse returns NULL exactly when an exception is set after
\* it returns; the exception is then tokenize, parse,
\* failed_to_allocate_memory or not_number and the kzrjson_free of the
\* partial result has not cleared it; on success the state is success.
C14_NullIffException ==
    pc \in {"parsed", "reparsed"} =>
        /\ root = NULL <=> g_exception # "success"
        /\ root = NULL =>
               g_exception \in {"tokenize", "parse", "failed_to_allocate_memory",
                                "not_number"}
        /\ lexer.exc = g_exception

\* 11a has failed: the Number made before the tokenize exception was freed
\* by kzrjson_free and the exception is still reported
C14_Witness ==
    /\ pc = "parsed"
    /\ json_text = <<"1", "1", "a">>
    /\ root = NULL
    /\ g_exception = "tokenize"
    /\ lexer.freed = 2

\* the nodes of the tree that ptr points to
RECURSIVE Nodes(_)
Nodes(ptr) ==
    IF ptr = NULL THEN {}
    ELSE {ptr[1]}
         \cup UNION {Nodes(<<ptr[1].elements[i]>>) : i \in 1..Len(ptr[1].elements)}
         \cup Nodes(ptr[1].value)

\* the nodes the client holds: the tree parsed and the values made
AllNodes == Nodes(root) \cup UNION {Nodes(<<vals[i]>>) : i \in 1..Len(vals)}

\* C16: after any sequence of kzrjson_parse and constructive API calls every
\* child of an Object is a Member and no child of an Array is a Member: an
\* attempt to add a Member to an Array is rejected.
C16_ChildKinds ==
    \A n \in AllNodes :
        /\ n.type = "object" =>
               \A i \in 1..Len(n.elements) : n.elements[i].type = "member"
        /\ n.type = "array" =>
               \A i \in 1..Len(n.elements) : n.elements[i].type # "member"

\* C17: after any sequence of constructive API calls and parses every Member
\* has a key and exactly one non-null value: kzrjson_make_member never
\* returns a Member without a value.
C17_MemberValue ==
    \A n \in AllNodes : n.type = "member" => n.value # NULL

\* what kzrjson_get_member has to return for the call recorded in ret
GetMemberPost ==
    LET object == heap[ret.object[1]]
        found == {i \in 1..Len(object.elements) :
                     heap[object.elements[i]].key = ret.key}
    IN  IF object.type # "object"
        THEN ret.node = NULL /\ g_exception = "illegal_type"
        ELSE IF found = {}
        THEN ret.node = NULL /\ g_exception = "object_key_not_found"
        ELSE /\ ret.node = <<object.elements[CHOOSE i \in found :
                                                 \A j \in found : i <= j]>>
             /\ g_exception = "success"

\* C15: kzrjson_get_member(object, key) on an Object returns the child
\* Member of lowest index whose key equals key, with success; NULL with
\* object_key_not_found when no child has the key; NULL with illegal_type on
\* a node that is not an Object; and the lookup modifies no node.
C15_GetMember ==
    [][pc' = "looked" => (GetMemberPost' /\ heap' = heap)]_vars

\* an object with two members of the same key was searched for that key
C15_Witness ==
    /\ pc = "looked"
    /\ Len(heap) = 3
    /\ heap[1].elements = <<3, 2>>
    /\ heap[2].key = heap[3].key
    /\ ret.key = heap[2].key
    /\ ret.node = <<3>>

\* the places where the pointer a is stored: <<node, index among its pointers>>
ParentSlots(a) ==
    {s \in UNION {{<<c, i>> : i \in 1..Len(ChildPtrs(heap[c]))} : c \in Addrs} :
        ChildPtrs(heap[s[1]])[s[2]] = a}

\* C18: after any sequence of constructive API calls the child relation over
\* the live nodes is a forest: no node is stored in two places, and no node
\* is its own descendant.
C18_Forest ==
    \A a \in Addrs :
        /\ Cardinality(ParentSlots(a)) <= 1
        /\ TreeShaped(heap, <<a>>)

\* the blocks allocated for the node at address a
Allocated(a) ==
    {<<"node", a>>}
    \cup (IF heap[a].type = "member" THEN {<<"key", a>>} ELSE {})
    \cup (IF heap[a].type \in {"string", "number"} THEN {<<"string", a>>} ELSE {})
    \cup (IF Len(heap[a].elements) > 0 THEN {<<"elements", a>>} ELSE {})

\* the addresses of the nodes reachable from the pointer any
Reachable(any) ==
    IF any = NULL THEN {}
    ELSE {Preorder(heap, any[1], Len(heap))[i] :
              i \in 1..Len(Preorder(heap, any[1], Len(heap)))}

\* C19: for a tree-shaped value kzrjson_free(root) frees every node reachable
\* from root, every child array, every key, string text and number text
\* exactly once and nothing else: the literal texts of true, false and null
\* are not freed and nothing reachable stays allocated.
C19_FreeOnce ==
    pc = "freed" =>
        /\ NoDup(released)
        /\ {released[i] : i \in 1..Len(released)}
               = UNION {Allocated(a) : a \in Reachable(ret.object)}

\* an object with a member whose value is null was freed
C19_Witness ==
    /\ pc = "freed"
    /\ Len(heap) = 3
    /\ heap[1].type = "null"
    /\ heap[2].type = "member" /\ heap[2].value = <<1>>
    /\ heap[3].type = "object" /\ heap[3].elements = <<2>>
    /\ ret.object = <<3>>
    /\ Len(released) = 5

\* C20: a new container has size 0; after k successful add calls its size
\* is k and its i-th child is the i-th node added, whatever was added later;
\* kzrjson_parse yields the members and elements in the order of the text.
C20_Order ==
    /\ \A a \in Addrs : heap[a].elements = added[a]
    /\ pc = "parsed" =>
         \A s \in ItemSeqs :
            /\ json_text = ArrayText(s) =>
                 /\ root # NULL
                 /\ root[1].type = "array"
                 /\ Len(root[1].elements) = Len(s)
                 /\ \A i \in 1..Len(s) : root[1].elements[i].string = s[i]
            /\ json_text = ObjectText(s) =>
                 /\ root # NULL
                 /\ root[1].type = "object"
                 /\ Len(root[1].elements) = Len(s)
                 /\ \A i \in 1..Len(s) :
                      /\ root[1].elements[i].key = KeyOf(i)
                      /\ root[1].elements[i].value # NULL
                      /\ root[1].elements[i].value[1].string = s[i]

\* an array got the node made last as its first child and an older one second
C20_Witness ==
    /\ pc = "heap"
    /\ Len(heap) = 3
    /\ heap[1].type = "array"
    /\ heap[1].elements = <<3, 2>>
    /\ added[1] = <<3, 2>>

\* C21: for every int64_t n, from INT64_MIN to INT64_MAX,
\* kzrjson_make_number_int(n) returns a Number classified as signed integer
\* whose text is the whole decimal representation of n and whose number_int
\* is n.
C21_MakeNumberInt ==
    (pc = "made" /\ ret.call = "make_number_int") =>
        /\ root # NULL
        /\ root[1].type = "number"
        /\ root[1].number_type = "int"
        /\ root[1].string = FormatLld64(ret.object)
        /\ root[1].number_int = ret.object

\* C22: reading a Number through the accessor of a classification other
\* than its own is rejected with an exception: no accessor returns the
\* stored bits of another representation.
C22_WrongAccessor ==
    (/\ pc = "read"
     /\ \/ ret.call = "get_number_as_integer" /\ root[1].number_type # "int"
        \/ ret.call = "get_number_as_unsigned_integer" /\ root[1].number_type # "uint"
        \/ ret.call = "get_number_as_double" /\ root[1].number_type \in {"int", "uint"})
    => g_exception # "success"

RECURSIVE Rendering(_)
RECURSIVE RenderingSeq(_, _)
Rendering(node) ==
    IF node.type = "object"
    THEN <<begin_object>> \o RenderingSeq(node.elements, 1) \o <<end_object>>
    ELSE IF node.type = "array"
    THEN <<begin_array>> \o RenderingSeq(node.elements, 1) \o <<end_array>>
    ELSE IF node.type = "member"
    THEN <<quotation_mark>> \o node.key \o <<quotation_mark, name_separator>>
         \o Rendering(node.value[1])
    ELSE IF node.type = "string"
    THEN <<quotation_mark>> \o node.string \o <<quotation_mark>>
    ELSE node.string
RenderingSeq(nodes, i) ==
    IF i > Len(nodes) THEN <<>>
    ELSE Rendering(nodes[i])
         \o (IF i < Len(nodes) THEN <<value_separator>> ELSE <<>>)
         \o RenderingSeq(nodes, i + 1)

\* every child of an object is a member with a value, no child of an array is
RECURSIVE WellFormed(_)
WellFormed(node) ==
    /\ node.type = "object" =>
           \A i \in 1..Len(node.elements) :
               node.elements[i].type = "member" /\ WellFormed(node.elements[i])
    /\ node.type = "array" =>
           \A i \in 1..Len(node.elements) :
               node.elements[i].type # "member" /\ WellFormed(node.elements[i])
    /\ node.type = "member" =>
           IF node.value = NULL THEN FALSE
           ELSE node.value[1].type # "member" /\ WellFormed(node.value[1])

\* C24: for every well-formed tree and every root variant (Object, Array,
\* String, Number, Boolean, Null) kzrjson_to_string returns exactly the
\* compact rendering R(v) and its length, also when the root is a Number, a
\* Boolean or Null.
C24_Rendering ==
    /\ (pc \in {"serialized", "reserialized"} /\ root[1].type # "member"
            /\ WellFormed(root[1]))
       => /\ out.text = Rendering(root[1])
          /\ out.length = Len(Rendering(root[1]))
    /\ pc # "aborted"

C26_MakeAllocFails ==
    (ret.call = "make" /\ ~ret.ok) =>
        /\ pc # "crashed"
        /\ ret.node = NULL
        /\ g_exception = "failed_to_allocate_memory"
        /\ ~ret.deref

\* C27: when the allocation inside add_element fails, the add call returns
\* false with failed_to_allocate_memory and the container keeps its size
\* and its children; the call returns true only when the child was
\* appended and the exception state is success.
C27_AddAllocFails ==
    ret.call = "add" =>
        /\ (~ret.ok /\ ret.object[1].type \in {"object", "array"}
               /\ g_exception # "illegal_type")
           => /\ ret.node = FALSE
              /\ g_exception = "failed_to_allocate_memory"
              /\ Top = ret.object
        /\ ret.node = TRUE
           => /\ g_exception = "success"
              /\ Top[1].elements_size = ret.object[1].elements_size + 1
              /\ Len(Top[1].elements) = Len(ret.object[1].elements) + 1

C29_CursorInText ==
    [][pc = "lexing" =>
          /\ lexer'.pos - 1 >= 0
          /\ lexer'.pos - 1 <= Len(json_text)
          /\ ~lexer'.over
          /\ lexer'.ret \in {"begin_array", "begin_object", "end_array",
                              "end_object", "name_separator", "value_separator",
                              "decimal_point", "digit0_9", "e", "minus", "plus",
                              "escape"}
              => lexer'.pos = skip_white_spaces(json_text, lexer).pos + 1]_vars

\* C30: in the revision with kzrjson_errno(), when kzrjson_parse failed, that
\* is when an error was set while it ran, it returned NULL and
\* kzrjson_errno() called right afterwards returns the kind of an error that
\* was set, not kzrjson_success.
C30_ErrnoKept ==
    (pc = "asked" /\ lexer.raised # {}) =>
        /\ root = NULL
        /\ ret.node \in lexer.raised
        /\ ret.node # "success"

====
